---- MODULE Spec2Model ----
(***************************************************************************)
(* State-machine model of the wgpu-renderer event loop (src/main.rs), its  *)
(* GraphicsState (resize / handle_input / update / render) and the camera  *)
(* controller and projection kept as commented-out source in src/camera.rs.*)
(*                                                                         *)
(* f32 values are fixed-point integers: 1.0 is Scale units, so an angle of *)
(* 0.0001 rad (the epsilon of SAFE_FRAC_PI_2) is exactly one unit.         *)
(* Instants are counted in ticks of 1/3 ms, which makes the frame time     *)
(* 1000 ms / 120 a whole number of ticks.                                  *)
(***************************************************************************)
EXTENDS Integers, Sequences, FiniteSets, TLC

VARIABLES
    graphics_state,        \* the GraphicsState owned by the event-loop closure
    elapsed,               \* Instant::now() - previous_render_time, in ticks
    exiting,               \* target.exit() has been called
    redraw_requested,      \* window.request_redraw() is pending
    presented,             \* what the last submitted and presented frame used
    frames,                \* RedrawRequested events handled so far
    ticks,                 \* advances of the clock so far
    exit_cause,            \* the arm of the closure that called target.exit()
    grid,                  \* initialize_instances: the grid iteration under way
    clip,                  \* Projection::matrix: a clip-space point and its
                           \* depth-corrected image
    loader,                \* load_model: the environment, the OnceLock of
                           \* resource_directory and the load under way
    layout,                \* LightUniform: a uniform and the bytes of it that
                           \* go into the light buffer
    renderer               \* GraphicsState::render: the call under way, the
                           \* commands it has made and the state of its pass

\* the variables of the event loop
loop_vars == <<graphics_state, elapsed, exiting, redraw_requested,
               presented, frames, ticks, exit_cause>>

\* the variables of the startup computations
startup_vars == <<grid, loader>>

vars == <<loop_vars, startup_vars, clip, layout, renderer>>

----------------------------------------------------------------------------
(* Bounds of the model *)

\* RedrawRequested events handled in one run
MaxFrames == 2

\* advances of the clock in one run
MaxTicks == 1

\* inputs the camera controller holds at the same time: keys held down, a
\* pending rotation, a pending scroll
MaxPending == 1

----------------------------------------------------------------------------
(* Fixed-point arithmetic standing for f32 *)

Scale == 10000

TicksPerSecond == 3000

Abs(a) == IF a < 0 THEN -a ELSE a

\* division rounding toward zero
TDiv(a, b) == IF a >= 0 THEN a \div b ELSE -((-a) \div b)

\* fixed-point product a * b / Scale, split so that no partial product
\* leaves the 32-bit range
FMulPos(a, b) == (a \div Scale) * b + ((a % Scale) * b) \div Scale

FMul(a, b) ==
    IF (a >= 0) = (b >= 0) THEN FMulPos(Abs(a), Abs(b))
                           ELSE -FMulPos(Abs(a), Abs(b))

\* fixed-point quotient a / b
FDiv(a, b) == TDiv(a * Scale, b)

RECURSIVE ISqrtIter(_, _)
ISqrtIter(n, g) ==
    LET g2 == (g + n \div g) \div 2
    IN  IF g2 >= g THEN g ELSE ISqrtIter(n, g2)

\* integer square root
ISqrt(n) == IF n <= 0 THEN 0 ELSE ISqrtIter(n, n)

\* std::f32::consts::FRAC_PI_2
FRAC_PI_2 == 15708

PI == 2 * FRAC_PI_2

\* sine of an angle in [0, FRAC_PI_2], by its Taylor series in Horner form
SinQuarter(x) ==
    LET t  == (x * x) \div Scale
        a4 == Scale - t \div 72
        a3 == Scale - (t * a4) \div (42 * Scale)
        a2 == Scale - (t * a3) \div (20 * Scale)
        a1 == Scale - (t * a2) \div (6 * Scale)
    IN  (x * a1) \div Scale

\* f32::sin
Sin(a) ==
    LET r == a % (2 * PI)
    IN  IF r <= FRAC_PI_2 THEN SinQuarter(r)
        ELSE IF r <= PI THEN SinQuarter(PI - r)
        ELSE IF r <= PI + FRAC_PI_2 THEN -SinQuarter(r - PI)
        ELSE -SinQuarter(2 * PI - r)

\* cosine of an angle in [0, FRAC_PI_2], by its Taylor series in Horner form;
\* the cosine of 0 is exactly 1.0, as it is for f32
CosQuarter(x) ==
    LET t  == (x * x) \div Scale
        b4 == Scale - t \div 56
        b3 == Scale - (t * b4) \div (30 * Scale)
        b2 == Scale - (t * b3) \div (12 * Scale)
    IN  Scale - (t * b2) \div (2 * Scale)

\* f32::cos
Cos(a) ==
    LET r == a % (2 * PI)
    IN  IF r <= FRAC_PI_2 THEN CosQuarter(r)
        ELSE IF r <= PI THEN -CosQuarter(PI - r)
        ELSE IF r <= PI + FRAC_PI_2 THEN -CosQuarter(r - PI)
        ELSE CosQuarter(2 * PI - r)

\* cgmath: Deg<f32> into Rad<f32>
DegToRad(d) == (d * PI) \div 180

\* Duration::as_secs_f32
as_secs_f32(duration) == (duration * Scale) \div TicksPerSecond

----------------------------------------------------------------------------
(* cgmath vectors *)

Vector3(x, y, z) == [x |-> x, y |-> y, z |-> z]

VAdd(a, b) == Vector3(a.x + b.x, a.y + b.y, a.z + b.z)

\* vector times an integral scalar amount
VScaleInt(v, k) == Vector3(v.x * k, v.y * k, v.z * k)

\* vector times a fixed-point scalar
VScale(v, s) == Vector3(FMul(v.x, s), FMul(v.y, s), FMul(v.z, s))

MaxAbs(v) ==
    LET m == IF Abs(v.x) > Abs(v.y) THEN Abs(v.x) ELSE Abs(v.y)
    IN  IF Abs(v.z) > m THEN Abs(v.z) ELSE m

\* the components are divided by k before they are squared, so that the sum
\* of squares stays inside the 32-bit range; k is 1 for |components| < 2.0
magnitude(v) ==
    LET k == 1 + MaxAbs(v) \div 20000
        x == TDiv(v.x, k)
        y == TDiv(v.y, k)
        z == TDiv(v.z, k)
    IN  k * ISqrt(x * x + y * y + z * z)

\* InnerSpace::normalize
normalize(v) ==
    LET m == magnitude(v)
    IN  Vector3(FDiv(v.x, m), FDiv(v.y, m), FDiv(v.z, m))

----------------------------------------------------------------------------
(* Camera, projection and camera uniform *)

SAFE_FRAC_PI_2 == FRAC_PI_2 - 1

\* Matrix4::new takes its sixteen entries column by column (c0r0, c0r1, ...):
\* a matrix is the sequence of its four columns
Matrix4_new(c0, c1, c2, c3) == <<c0, c1, c2, c3>>

\* the constant as the source writes it, four entries to a line
OPENGL_TO_WGPU_MATRIX ==
    Matrix4_new(<<Scale, 0, 0, 0>>,
                <<0, Scale, 0, 0>>,
                <<0, 0, Scale \div 2, Scale \div 2>>,
                <<0, 0, 0, Scale>>)

\* Matrix4 * Vector4: row r of the product is the sum over the columns c of
\* m[c][r] * v[c]
Matrix4_mul_vector(m, v) ==
    [r \in 1..4 |-> FMul(m[1][r], v[1]) + FMul(m[2][r], v[2])
                     + FMul(m[3][r], v[3]) + FMul(m[4][r], v[4])]

Camera_new(position, yaw, pitch) ==
    [position |-> position, yaw |-> DegToRad(yaw), pitch |-> DegToRad(pitch)]

Projection_new(width, height, fovy, z_near, z_far) ==
    [aspect |-> FDiv(width, height), fovy |-> DegToRad(fovy),
     z_near |-> z_near, z_far |-> z_far]

Projection_resize(projection, width, height) ==
    [projection EXCEPT !.aspect = FDiv(width, height)]

\* The product projection.matrix() * camera.matrix() is kept factored: the
\* projection it was built from and the camera pose it was built from.
CameraUniform_new(camera, projection) ==
    [view_position   |-> [x |-> camera.position.x, y |-> camera.position.y,
                          z |-> camera.position.z, w |-> Scale],
     view_projection |-> [projection |-> projection,
                          view |-> [position |-> camera.position,
                                    yaw |-> camera.yaw,
                                    pitch |-> camera.pitch]]]

CameraUniform_update(camera, projection) == CameraUniform_new(camera, projection)

----------------------------------------------------------------------------
(* CameraController *)

MovementKeys == {"KeyW", "KeyS", "KeyA", "KeyD", "Space", "ShiftLeft"}

CameraController_new(speed, sensitivity) ==
    [amount_left |-> 0, amount_right |-> 0, amount_forward |-> 0,
     amount_backward |-> 0, amount_up |-> 0, amount_down |-> 0,
     rotate_horizontal |-> 0, rotate_vertical |-> 0, scroll |-> 0,
     speed |-> speed, sensitivity |-> sensitivity]

handle_key_input(cc, key, state) ==
    LET amount == IF state = "Pressed" THEN 1 ELSE 0
    IN  CASE key = "KeyW"      -> [cc EXCEPT !.amount_forward = amount]
          [] key = "KeyS"      -> [cc EXCEPT !.amount_backward = amount]
          [] key = "KeyA"      -> [cc EXCEPT !.amount_left = amount]
          [] key = "KeyD"      -> [cc EXCEPT !.amount_right = amount]
          [] key = "Space"     -> [cc EXCEPT !.amount_up = amount]
          [] key = "ShiftLeft" -> [cc EXCEPT !.amount_down = amount]
          [] OTHER             -> cc

\* whether handle_keyboard reports the key event as consumed
handle_keyboard_consumed(key) == key \in MovementKeys

\* a handler that adds the motion to the rotation still pending
handle_mouse_input_accumulating(cc, mouse_dx, mouse_dy) ==
    [cc EXCEPT !.rotate_horizontal = @ + mouse_dx, !.rotate_vertical = @ + mouse_dy]

handle_mouse_input(cc, mouse_dx, mouse_dy) ==
    [cc EXCEPT !.rotate_horizontal = mouse_dx, !.rotate_vertical = mouse_dy]

process_scroll(cc, delta) ==
    [cc EXCEPT !.scroll = -(IF delta.kind = "LineDelta" THEN delta.y * 100
                                                        ELSE delta.y)]

\* an update that leaves the pitch as the rotation made it
clamp_pitch_unbounded(pitch) == pitch

\* the tail of CameraController::update that bounds the pitch
clamp_pitch(pitch) ==
    LET max_angle == -SAFE_FRAC_PI_2
    IN  IF pitch < -max_angle THEN -max_angle
        ELSE IF pitch > max_angle THEN max_angle
        ELSE pitch

\* the per-frame deltas as update leaves them
reset_deltas(cc) ==
    [cc EXCEPT !.scroll = 0, !.rotate_horizontal = 0, !.rotate_vertical = 0]

\* camera.position after the key and scroll movement of one update
moved_position(cc, camera, dt) ==
    LET yaw_sin    == Sin(camera.yaw)
        yaw_cos    == Cos(camera.yaw)
        forward    == normalize(Vector3(yaw_cos, 0, yaw_sin))
        right      == normalize(Vector3(-yaw_sin, 0, yaw_cos))
        p1 == VAdd(camera.position,
                   VScale(VScaleInt(forward,
                       (cc.amount_forward - cc.amount_backward) * cc.speed), dt))
        p2 == VAdd(p1,
                   VScale(VScaleInt(right,
                       (cc.amount_right - cc.amount_left) * cc.speed), dt))
        pitch_sin  == Sin(camera.pitch)
        pitch_cos  == Cos(camera.pitch)
        scrollward == normalize(Vector3(FMul(pitch_cos, yaw_cos), pitch_sin,
                                        FMul(pitch_cos, yaw_sin)))
        p3 == VAdd(p2,
                   VScale(VScaleInt(scrollward,
                       cc.scroll * cc.speed * cc.sensitivity), dt))
    IN  [p3 EXCEPT !.y = @ + (cc.amount_up - cc.amount_down) * cc.speed * dt]

CameraController_update(cc, camera, duration) ==
    LET dt == as_secs_f32(duration)
    IN  [controller |-> reset_deltas(cc),
         camera |->
            [position |-> moved_position(cc, camera, dt),
             yaw      |-> camera.yaw + cc.rotate_horizontal * cc.sensitivity * dt,
             pitch    |-> clamp_pitch(camera.pitch
                              + (-cc.rotate_vertical) * cc.sensitivity * dt)]]

----------------------------------------------------------------------------
(* Light, depth texture and text manager *)

LightUniform_new(position, color) == [position |-> position, color |-> color]

\* LightUniform::prepared: the buffer is created with the uniform's bytes
prepared(uniform) == [uniform |-> uniform, buffer |-> uniform]

\* an update that turns the light by two degrees
LightBundle_update_two_degrees(bundle) ==
    LET old_position == bundle.uniform.position
        angle == DegToRad(2)
        c == Cos(angle)
        s == Sin(angle)
        position == Vector3(FMul(old_position.x, c) + FMul(old_position.z, s),
                            old_position.y,
                            FMul(old_position.z, c) - FMul(old_position.x, s))
        uniform == [bundle.uniform EXCEPT !.position = position]
    IN  [uniform |-> uniform, buffer |-> uniform]

\* Quaternion::from_axis_angle((0, 1, 0), Deg(1)) * old_position, then the
\* buffer write
LightBundle_update(bundle) ==
    LET old_position == bundle.uniform.position
        angle == DegToRad(1)
        c == Cos(angle)
        s == Sin(angle)
        position == Vector3(FMul(old_position.x, c) + FMul(old_position.z, s),
                            old_position.y,
                            FMul(old_position.z, c) - FMul(old_position.x, s))
        uniform == [bundle.uniform EXCEPT !.position = position]
    IN  [uniform |-> uniform, buffer |-> uniform]

create_depth_texture(config) == [width |-> config.width, height |-> config.height]

\* TextManager::SCALE
SCALE == 5000

\* TextManager::resize: the size given to the text buffer
TextManager_resize(config) ==
    [width |-> FMul(config.width * Scale, SCALE),
     height |-> FMul(config.height * Scale, SCALE)]

----------------------------------------------------------------------------
(* Instances *)

INSTANCES_PER_ROW == 10

SPACE_BETWEEN == 3

unit_z == Vector3(0, 0, Scale)

\* Zero::is_zero
is_zero(v) == v = Vector3(0, 0, 0)

\* Quaternion::from_axis_angle, the angle in degrees: the scalar part is the
\* cosine of half the angle, the vector part the axis times its sine
from_axis_angle(axis, angle) ==
    LET half == DegToRad(angle) \div 2
    IN  [s |-> Cos(half), v |-> VScale(axis, Sin(half))]

\* a closure that never rotates an instance
instance_cell_all_identity(n, x, z) ==
    [position |-> Vector3(SPACE_BETWEEN * (x * Scale - (n * Scale) \div 2), 0,
                          SPACE_BETWEEN * (z * Scale - (n * Scale) \div 2)),
     rotation |-> from_axis_angle(unit_z, 0)]

\* the closure initialize_instances maps over the cells (x, z) of a grid of
\* n cells per row
instance_cell(n, x, z) ==
    LET px == SPACE_BETWEEN * (x * Scale - (n * Scale) \div 2)
        pz == SPACE_BETWEEN * (z * Scale - (n * Scale) \div 2)
        position == Vector3(px, 0, pz)
        rotation == IF is_zero(position)
                    THEN from_axis_angle(unit_z, 0)
                    ELSE from_axis_angle(normalize(position), 45)
    IN  [position |-> position, rotation |-> rotation]

\* Instance::raw: the model matrix, kept as its factors translation and
\* rotation, and the normal matrix of the rotation
Instance_raw(instance) ==
    [model  |-> [translation |-> instance.position,
                 rotation |-> instance.rotation],
     normal |-> instance.rotation]

\* the inner map over x for one z
instance_row(n, z) == [i \in 1..n |-> instance_cell(n, i - 1, z)]

\* the flat_map over z, from row z on
RECURSIVE instance_rows(_, _)
instance_rows(n, z) ==
    IF z >= n THEN <<>> ELSE instance_row(n, z) \o instance_rows(n, z + 1)

\* the instance buffer created from the raw instances
create_instance_buffer(instances) ==
    [i \in 1..Len(instances) |-> Instance_raw(instances[i])]

initialize_instances(n) ==
    LET instances == instance_rows(n, 0)
    IN  [instance_buffer |-> create_instance_buffer(instances),
         instances |-> instances]

----------------------------------------------------------------------------
(* GraphicsState *)

speed == 8

sensitivity == 1

initialize_camera(config) ==
    LET camera == Camera_new(Vector3(0, 5 * Scale, 10 * Scale), -90, -20)
        projection == Projection_new(config.width, config.height, 45,
                                     Scale \div 10, 100 * Scale)
    IN  [camera |-> camera,
         projection |-> projection,
         camera_controller |-> CameraController_new(speed, sensitivity),
         camera_uniform |-> CameraUniform_new(camera, projection)]

GraphicsState_new(inner_size) ==
    LET config == [width |-> inner_size[1], height |-> inner_size[2]]
        cam == initialize_camera(config)
        inst == initialize_instances(INSTANCES_PER_ROW)
    IN  [size |-> config,
         config |-> config,
         surface |-> config,
         instance_buffer |-> inst.instance_buffer,
         instances |-> inst.instances,
         depth_texture |-> create_depth_texture(config),
         camera |-> cam.camera,
         projection |-> cam.projection,
         camera_uniform |-> cam.camera_uniform,
         camera_buffer |-> cam.camera_uniform,
         camera_controller |-> cam.camera_controller,
         light_bundle |-> prepared(LightUniform_new(
                              Vector3(2 * Scale, 2 * Scale, 2 * Scale),
                              Vector3(Scale, Scale, Scale))),
         text_manager |-> TextManager_resize(config),
         mouse_pressed |-> FALSE,
         calls |-> <<>>]

\* resize that keeps the old depth texture
resize_stale_depth(gs, size) ==
    IF size.width > 0 /\ size.height > 0
    THEN LET config == [gs.config EXCEPT !.width = size.width,
                                         !.height = size.height]
         IN  [gs EXCEPT !.size = size,
                        !.config = config,
                        !.surface = config,
                        !.text_manager = TextManager_resize(config),
                        !.calls = @ \o <<"resize", "surface.configure",
                                         "text_manager.resize">>]
    ELSE [gs EXCEPT !.calls = @ \o <<"resize">>]

\* resize without its test of the size
resize_unguarded(gs, size) ==
    LET config == [gs.config EXCEPT !.width = size.width,
                                    !.height = size.height]
    IN  [gs EXCEPT !.size = size,
                   !.config = config,
                   !.surface = config,
                   !.depth_texture = create_depth_texture(config),
                   !.text_manager = TextManager_resize(config),
                   !.calls = @ \o <<"resize", "surface.configure",
                                    "create_depth_texture",
                                    "text_manager.resize">>]

resize(gs, size) ==
    IF size.width > 0 /\ size.height > 0
    THEN LET config == [gs.config EXCEPT !.width = size.width,
                                         !.height = size.height]
         IN  [gs EXCEPT !.size = size,
                        !.config = config,
                        !.surface = config,
                        !.depth_texture = create_depth_texture(config),
                        !.text_manager = TextManager_resize(config),
                        !.calls = @ \o <<"resize", "surface.configure",
                                         "create_depth_texture",
                                         "text_manager.resize">>]
    ELSE [gs EXCEPT !.calls = @ \o <<"resize">>]

\* a handle_input whose MouseInput arm matches every button
handle_input_any_button(gs, event) ==
    CASE event.event = "KeyboardInput" ->
            [gs |-> [gs EXCEPT !.camera_controller =
                        handle_key_input(@, event.key, event.state)],
             consumed |-> handle_keyboard_consumed(event.key)]
      [] event.event = "MouseWheel" ->
            [gs |-> [gs EXCEPT !.camera_controller =
                        process_scroll(@, event.delta)],
             consumed |-> TRUE]
      [] event.event = "MouseInput" ->
            [gs |-> [gs EXCEPT !.mouse_pressed = (event.state = "Pressed")],
             consumed |-> TRUE]
      [] OTHER -> [gs |-> gs, consumed |-> FALSE]

\* a handle_input that reports every event as consumed
handle_input_consuming_all(gs, event) ==
    CASE event.event = "KeyboardInput" ->
            [gs |-> [gs EXCEPT !.camera_controller =
                        handle_key_input(@, event.key, event.state)],
             consumed |-> handle_keyboard_consumed(event.key)]
      [] event.event = "MouseWheel" ->
            [gs |-> [gs EXCEPT !.camera_controller =
                        process_scroll(@, event.delta)],
             consumed |-> TRUE]
      [] event.event = "MouseInput" /\ event.button = "Left" ->
            [gs |-> [gs EXCEPT !.mouse_pressed = (event.state = "Pressed")],
             consumed |-> TRUE]
      [] OTHER -> [gs |-> gs, consumed |-> TRUE]

\* handle_input: the state it leaves and whether it consumed the event
handle_input(gs, event) ==
    CASE event.event = "KeyboardInput" ->
            [gs |-> [gs EXCEPT !.camera_controller =
                        handle_key_input(@, event.key, event.state)],
             consumed |-> handle_keyboard_consumed(event.key)]
      [] event.event = "MouseWheel" ->
            [gs |-> [gs EXCEPT !.camera_controller =
                        process_scroll(@, event.delta)],
             consumed |-> TRUE]
      [] event.event = "MouseInput" /\ event.button = "Left" ->
            [gs |-> [gs EXCEPT !.mouse_pressed = (event.state = "Pressed")],
             consumed |-> TRUE]
      [] OTHER -> [gs |-> gs, consumed |-> FALSE]

\* an update that also animates the instances and rewrites their buffer
update_animating_instances(gs, dt) ==
    LET moved == CameraController_update(gs.camera_controller, gs.camera, dt)
        camera_uniform == CameraUniform_update(moved.camera, gs.projection)
        instances == [i \in 1..Len(gs.instances) |->
                         [gs.instances[i] EXCEPT
                             !.rotation = from_axis_angle(unit_z, 0)]]
    IN  [gs EXCEPT !.camera_controller = moved.controller,
                   !.camera = moved.camera,
                   !.camera_uniform = camera_uniform,
                   !.camera_buffer = camera_uniform,
                   !.light_bundle = LightBundle_update(@),
                   !.text_manager = TextManager_resize(gs.config),
                   !.instances = instances,
                   !.instance_buffer = create_instance_buffer(instances),
                   !.calls = @ \o <<"camera_controller.update",
                                    "camera_uniform.update",
                                    "queue.write_buffer(camera_buffer)",
                                    "light_bundle.update",
                                    "queue.write_buffer(light_buffer)",
                                    "text_manager.resize">>]

update(gs, dt) ==
    LET moved == CameraController_update(gs.camera_controller, gs.camera, dt)
        camera_uniform == CameraUniform_update(moved.camera, gs.projection)
    IN  [gs EXCEPT !.camera_controller = moved.controller,
                   !.camera = moved.camera,
                   !.camera_uniform = camera_uniform,
                   !.camera_buffer = camera_uniform,
                   !.light_bundle = LightBundle_update(@),
                   !.text_manager = TextManager_resize(gs.config),
                   !.calls = @ \o <<"camera_controller.update",
                                    "camera_uniform.update",
                                    "queue.write_buffer(camera_buffer)",
                                    "light_bundle.update",
                                    "queue.write_buffer(light_buffer)",
                                    "text_manager.resize">>]

\* render: get_current_texture yields the acquired frame ("Ok") or a
\* SurfaceError; on success the passes are encoded, the encoder is submitted
\* and the frame is presented
render(gs, acquired) ==
    IF acquired # "Ok"
    THEN [gs |-> [gs EXCEPT !.calls = @ \o <<"surface.get_current_texture">>],
          result |-> acquired,
          frames |-> <<>>]
    ELSE [gs |-> [gs EXCEPT !.calls = @ \o
                    <<"surface.get_current_texture",
                      "device.create_command_encoder",
                      "begin_render_pass",
                      "set_pipeline(light_render_pipeline)",
                      "draw_light_model",
                      "set_pipeline(standard_render_pipeline)",
                      "draw_model_instanced",
                      "text_manager.render",
                      "queue.submit",
                      "frame.present">>],
          result |-> "Ok",
          frames |-> << [target |-> gs.surface,
                         depth  |-> gs.depth_texture,
                         camera |-> gs.camera_buffer,
                         light  |-> gs.light_bundle.buffer,
                         instances |-> [start |-> 0,
                                        end |-> Len(gs.instances)]] >>]

----------------------------------------------------------------------------
(* main: the event-loop closure *)

target_frame_rate == 120

\* Duration::from_millis(1000) / target_frame_rate
frame_time == TicksPerSecond \div target_frame_rate

WindowEventKinds == {"CloseRequested", "KeyboardInput", "MouseWheel",
                     "MouseInput", "Resized", "RedrawRequested", "Focused"}

\* an arm of the closure's match that changes nothing
Ignored(gs) ==
    [gs |-> gs, exit |-> "none", redrawn |-> FALSE, result |-> "none",
     presented |-> <<>>]

\* the frame rendered before the update
render_then_update(gs, dt, acquired) ==
    LET r == render(gs, acquired)
    IN  [r EXCEPT !.gs = update(@, dt)]

\* graphics_state.update(dt) followed by graphics_state.render()
update_then_render(gs, dt, acquired) == render(update(gs, dt), acquired)

\* a match whose Lost arm exits as the OutOfMemory arm does
match_render_result_lost_exits(r) ==
    LET done == [Ignored(r.gs) EXCEPT !.redrawn = TRUE, !.result = r.result,
                                      !.presented = r.frames]
    IN  CASE r.result = "Ok" -> done
          [] r.result \in {"Lost", "OutOfMemory"} ->
                [done EXCEPT !.exit = r.result]
          [] OTHER -> [done EXCEPT !.gs.calls = @ \o <<"eprintln">>]

\* a match that recovers from every error as the Lost arm does
match_render_result_all_recovered(r) ==
    LET done == [Ignored(r.gs) EXCEPT !.redrawn = TRUE, !.result = r.result,
                                      !.presented = r.frames]
    IN  CASE r.result = "Ok" -> done
          [] OTHER -> [done EXCEPT !.gs = resize(@, @.size)]

\* the match on the result of graphics_state.render()
match_render_result(r) ==
    LET done == [Ignored(r.gs) EXCEPT !.redrawn = TRUE, !.result = r.result,
                                      !.presented = r.frames]
    IN  CASE r.result = "Ok"          -> done
          [] r.result = "Lost"        -> [done EXCEPT !.gs = resize(@, @.size)]
          [] r.result = "OutOfMemory" -> [done EXCEPT !.exit = "OutOfMemory"]
          [] OTHER                    ->
                [done EXCEPT !.gs.calls = @ \o <<"eprintln">>]

\* the RedrawRequested arm: update, render, and the match on render's result
redraw(gs, dt, acquired) ==
    match_render_result(update_then_render(gs, dt, acquired))

\* an inner match whose exit arm only matches CloseRequested
window_event_close_only(gs, event, dt, acquired) ==
    CASE event.event = "CloseRequested" ->
            [Ignored(gs) EXCEPT !.exit = event.event]
      [] event.event = "Resized" -> Ignored(resize(gs, event.size))
      [] event.event = "RedrawRequested" -> redraw(gs, dt, acquired)
      [] OTHER -> Ignored(gs)

\* the inner match on a window event that handle_input did not consume
window_event(gs, event, dt, acquired) ==
    CASE event.event = "CloseRequested"
         \/ (event.event = "KeyboardInput" /\ event.state = "Pressed"
                                           /\ event.key = "Escape") ->
            [Ignored(gs) EXCEPT !.exit = event.event]
      [] event.event = "Resized" -> Ignored(resize(gs, event.size))
      [] event.event = "RedrawRequested" -> redraw(gs, dt, acquired)
      [] OTHER -> Ignored(gs)

\* the closure's match on the event
main_match(gs, event, dt, acquired) ==
    CASE event.event = "Suspended" -> [Ignored(gs) EXCEPT !.exit = "Suspended"]
      [] event.event = "MouseMotion" /\ gs.mouse_pressed ->
            Ignored([gs EXCEPT
                        !.camera_controller =
                            handle_mouse_input(@, event.motion[1], event.motion[2]),
                        !.calls = @ \o <<"camera_controller.handle_mouse">>])
      [] event.event \in WindowEventKinds /\ event.window = "own" ->
            LET input == handle_input([gs EXCEPT !.calls = @ \o <<"handle_input">>],
                                      event)
            IN  IF input.consumed THEN Ignored(input.gs)
                ELSE window_event(input.gs, event, dt, acquired)
      [] OTHER -> Ignored(gs)

\* an end of the closure that requests a redraw after every event
request_redraw_always(pending, dt) == TRUE

\* the end of the closure: request a redraw once frame_time has elapsed
request_redraw(pending, dt) == pending \/ dt >= frame_time

----------------------------------------------------------------------------
(* Inputs *)

InitSizes == {<<800, 600>>}

ResizeInputs == {<<0, 600>>, <<400, 0>>, <<0, 0>>, <<400, 400>>, <<800, 600>>}

KeyCodes == MovementKeys \cup {"Escape", "KeyP"}

ElementStates == {"Pressed", "Released"}

MouseButtons == {"Left", "Right"}

MouseDeltas == {<<-20000, 30000>>, <<3, -30000>>}

ScrollDeltas == {[kind |-> "LineDelta", y |-> 1],
                 [kind |-> "PixelDelta", y |-> -30]}

SurfaceResults == {"Ok", "Lost", "OutOfMemory", "Timeout", "Outdated"}

\* the values Instant::now() - previous_render_time passes through
ElapsedMarks == {frame_time - 1, frame_time, TicksPerSecond}

NoDelta == [kind |-> "none", y |-> 0]

NoEvent ==
    [event |-> "none", window |-> "none", key |-> "none", state |-> "none",
     button |-> "none", delta |-> NoDelta, motion |-> <<0, 0>>,
     size |-> [width |-> 0, height |-> 0], acquired |-> "none", dt |-> 0]

Pending(cc) ==
    cc.amount_left + cc.amount_right + cc.amount_forward
    + cc.amount_backward + cc.amount_up + cc.amount_down
    + (IF cc.rotate_horizontal # 0 \/ cc.rotate_vertical # 0 THEN 1 ELSE 0)
    + (IF cc.scroll # 0 THEN 1 ELSE 0)

----------------------------------------------------------------------------
(* The state machine *)

\* the event loop as main starts it
LoopInit ==
    /\ \E inner_size \in InitSizes : graphics_state = GraphicsState_new(inner_size)
    /\ elapsed = 0
    /\ exiting = FALSE
    /\ redraw_requested = FALSE
    /\ presented = <<>>
    /\ frames = 0
    /\ ticks = 0
    /\ exit_cause = "none"

\* initialize_instances about to iterate over a grid of n cells per row
GridStart(n) == [n |-> n, z |-> 0, x |-> 0, instances |-> <<>>,
                 instance_buffer |-> <<>>, returned |-> FALSE]

\* the startup computations as they are once GraphicsState::new has returned
GridDone ==
    grid = [GridStart(INSTANCES_PER_ROW) EXCEPT !.z = INSTANCES_PER_ROW,
                                                !.returned = TRUE]

\* load_model has returned and the event loop runs
LoadDone == loader = [pc |-> "returned", event_loop |-> TRUE]

StartupDone == GridDone /\ LoadDone

\* no clip-space point is being followed
ClipIdle == clip = [point |-> <<>>, corrected |-> <<>>]

\* no uniform is being laid out
LayoutIdle == layout = [uniform |-> <<>>, bytes |-> <<>>]

\* no call of render is followed command by command
RenderIdle == renderer = [pc |-> "idle"]

Init == LoopInit /\ StartupDone /\ ClipIdle /\ LayoutIdle /\ RenderIdle

\* one iteration of the closure on `event`
Deliver(event) ==
    \E out \in {main_match([graphics_state EXCEPT !.calls = <<>>], event,
                            event.dt, event.acquired)} :
        /\ ~exiting
        /\ Pending(out.gs.camera_controller) <= MaxPending
        /\ graphics_state' = out.gs
        /\ exiting' = (out.exit # "none")
        /\ presented' = out.presented
        /\ elapsed' = IF out.redrawn THEN 0 ELSE elapsed
        /\ frames' = IF out.redrawn THEN frames + 1 ELSE frames
        /\ redraw_requested' =
              request_redraw(redraw_requested /\ ~out.redrawn, elapsed')
        /\ exit_cause' = out.exit
        /\ UNCHANGED <<ticks, startup_vars, clip, layout, renderer>>

OwnEvent(kind) == [NoEvent EXCEPT !.event = kind, !.window = "own"]

KeyEvent(key, state) ==
    [OwnEvent("KeyboardInput") EXCEPT !.key = key, !.state = state]

ResizedEvent(size) ==
    [OwnEvent("Resized") EXCEPT !.size = [width |-> size[1], height |-> size[2]]]

\* RedrawRequested with the outcome of surface.get_current_texture()
RedrawWith(acquired) ==
    /\ frames < MaxFrames
    /\ Deliver([OwnEvent("RedrawRequested") EXCEPT !.acquired = acquired,
                                                   !.dt = elapsed])

Suspended == Deliver([NoEvent EXCEPT !.event = "Suspended"])

MouseMotion ==
    \E delta \in MouseDeltas :
        Deliver([NoEvent EXCEPT !.event = "MouseMotion", !.motion = delta])

CloseRequested == Deliver(OwnEvent("CloseRequested"))

KeyboardInput ==
    \E key \in KeyCodes, state \in ElementStates : Deliver(KeyEvent(key, state))

MouseWheel ==
    \E delta \in ScrollDeltas :
        Deliver([OwnEvent("MouseWheel") EXCEPT !.delta = delta])

MouseInput ==
    \E button \in MouseButtons, state \in ElementStates :
        Deliver([OwnEvent("MouseInput") EXCEPT !.button = button,
                                               !.state = state])

Resized == \E size \in ResizeInputs : Deliver(ResizedEvent(size))

RedrawRequested == \E acquired \in SurfaceResults : RedrawWith(acquired)

\* a window event the closure has no arm for
Focused == Deliver(OwnEvent("Focused"))

\* a window event addressed to another window
ForeignWindowEvent ==
    \E kind \in WindowEventKinds :
        Deliver([NoEvent EXCEPT !.event = kind, !.window = "other",
                                !.key = "Escape", !.state = "Pressed",
                                !.button = "Left",
                                !.delta = [kind |-> "LineDelta", y |-> 1],
                                !.size = [width |-> 400, height |-> 400],
                                !.acquired = "Ok", !.dt = elapsed])

\* time passes between two iterations of the closure
Tick ==
    \E mark \in ElapsedMarks :
        /\ ~exiting
        /\ ticks < MaxTicks
        /\ mark > elapsed
        /\ elapsed' = mark
        /\ ticks' = ticks + 1
        /\ UNCHANGED <<graphics_state, exiting, redraw_requested, presented,
                       frames, exit_cause, startup_vars, clip, layout, renderer>>

Next ==
    \/ Suspended
    \/ MouseMotion
    \/ CloseRequested
    \/ KeyboardInput
    \/ MouseWheel
    \/ MouseInput
    \/ Resized
    \/ RedrawRequested
    \/ Focused
    \/ ForeignWindowEvent
    \/ Tick

Spec == Init /\ [][Next]_vars

----------------------------------------------------------------------------
(* initialize_instances, one instance at a time *)

GridSizes == 1..12

\* an iteration with x as the outer index
NextInstanceColumnMajor ==
    /\ grid.z < grid.n
    /\ grid' = [grid EXCEPT
                   !.instances = Append(@, instance_cell(grid.n, grid.z, grid.x)),
                   !.x = IF grid.x + 1 < grid.n THEN grid.x + 1 ELSE 0,
                   !.z = IF grid.x + 1 < grid.n THEN grid.z ELSE grid.z + 1]
    /\ UNCHANGED <<loop_vars, clip, loader, layout, renderer>>

\* collect() takes the next instance from the flat_map over z of the map
\* over x
NextInstance ==
    /\ grid.z < grid.n
    /\ grid' = [grid EXCEPT
                   !.instances = Append(@, instance_cell(grid.n, grid.x, grid.z)),
                   !.x = IF grid.x + 1 < grid.n THEN grid.x + 1 ELSE 0,
                   !.z = IF grid.x + 1 < grid.n THEN grid.z ELSE grid.z + 1]
    /\ UNCHANGED <<loop_vars, clip, loader, layout, renderer>>

\* the iteration is exhausted: the raw instances go into the instance
\* buffer and the function returns
CreateInstanceBuffer ==
    /\ grid.z >= grid.n
    /\ ~grid.returned
    /\ grid' = [grid EXCEPT
                   !.instance_buffer = create_instance_buffer(grid.instances),
                   !.returned = TRUE]
    /\ UNCHANGED <<loop_vars, clip, loader, layout, renderer>>

GridInit ==
    /\ \E n \in GridSizes : grid = GridStart(n)
    /\ LoopInit
    /\ ClipIdle
    /\ LoadDone
    /\ LayoutIdle
    /\ RenderIdle

GridNext == NextInstance \/ CreateInstanceBuffer

GridSpec == GridInit /\ [][GridNext]_vars

----------------------------------------------------------------------------
(* Projection::matrix: the depth correction of a clip-space point *)

\* clip-space points (x, y, z, w) with -w <= z <= w
ClipPoints ==
    {<<x, y, z, w>> : x \in {-Scale, 0, Scale}, y \in {-Scale, 0, Scale},
                      z \in {-5 * Scale, -2 * Scale, -Scale, -(Scale \div 2), 0,
                             Scale \div 2, Scale, 2 * Scale, 5 * Scale},
                      w \in {Scale, 2 * Scale, 5 * Scale}}

\* OPENGL_TO_WGPU_MATRIX * the point cgmath::perspective produced
CorrectDepth ==
    /\ clip.corrected = <<>>
    /\ clip' = [clip EXCEPT
                   !.corrected = Matrix4_mul_vector(OPENGL_TO_WGPU_MATRIX, clip.point)]
    /\ UNCHANGED <<loop_vars, startup_vars, layout, renderer>>

ClipInit ==
    /\ \E point \in ClipPoints :
          /\ Abs(point[3]) <= point[4]
          /\ clip = [point |-> point, corrected |-> <<>>]
    /\ LoopInit
    /\ StartupDone
    /\ LayoutIdle
    /\ RenderIdle

ClipNext == CorrectDepth

ClipSpec == ClipInit /\ [][ClipNext]_vars

----------------------------------------------------------------------------
(* model::resource: resource_directory, load_texture, load_model *)

\* values of the environment variable RESOURCE_DIRECTORY; the assets are in
\* the directory "assets" and nowhere else
EnvValues == {"unset", "assets", "elsewhere"}

ObjectFile == "cube.obj"

MaterialLibrary == "cube.mtl"

\* the materials the material library describes
Materials ==
    << [name |-> "stone", diffuse_texture |-> "stone-diffuse.png",
        normal_texture |-> "stone-normal.png"],
       [name |-> "moss", diffuse_texture |-> "moss-diffuse.png",
        normal_texture |-> "moss-normal.png"] >>

TextureFiles ==
    {Materials[i].diffuse_texture : i \in 1..Len(Materials)}
    \cup {Materials[i].normal_texture : i \in 1..Len(Materials)}

NoFault == [file |-> "none", kind |-> "none"]

\* what can be wrong with the assets: a file is missing or unreadable, a
\* file is there but does not parse or decode, a material names no texture
Faults ==
    {NoFault}
    \cup {[file |-> f, kind |-> k] :
             f \in {ObjectFile, MaterialLibrary} \cup TextureFiles,
             k \in {"missing", "malformed"}}
    \cup {[file |-> f, kind |-> "no_reference"] : f \in TextureFiles}

Vector2(x, y) == [x |-> x, y |-> y]

\* f32::INFINITY and f32::NAN: two values beyond every finite value of the
\* model
INFINITY == 1000000000

NAN == 2000000000

is_finite(a) == Abs(a) < INFINITY

\* f32 negation
f32_neg(a) == IF a = NAN THEN NAN ELSE -a

\* f32 addition: infinities of opposite signs add up to NaN
f32_add(a, b) ==
    IF a = NAN \/ b = NAN THEN NAN
    ELSE IF is_finite(a) /\ is_finite(b) THEN a + b
    ELSE IF is_finite(b) THEN a
    ELSE IF is_finite(a) \/ a = b THEN b
    ELSE NAN

\* f32 multiplication: zero times an infinity is NaN
f32_mul(a, b) ==
    IF a = NAN \/ b = NAN THEN NAN
    ELSE IF is_finite(a) /\ is_finite(b) THEN FMul(a, b)
    ELSE IF a = 0 \/ b = 0 THEN NAN
    ELSE IF (a > 0) = (b > 0) THEN INFINITY
    ELSE -INFINITY

\* 1.0 / divisor, the divisor finite; a zero divisor is +0.0 or -0.0 and the
\* quotient the infinity of its sign
f32_recip(divisor, negative_zero) ==
    IF divisor # 0 THEN FDiv(Scale, divisor)
    ELSE IF negative_zero THEN -INFINITY
    ELSE INFINITY

\* cgmath: Vector3 + Vector3 and Vector3 * f32
Vector3_add(a, b) ==
    Vector3(f32_add(a.x, b.x), f32_add(a.y, b.y), f32_add(a.z, b.z))

Vector3_mul(v, s) == Vector3(f32_mul(v.x, s), f32_mul(v.y, s), f32_mul(v.z, s))

VSub(a, b) == Vector3(a.x - b.x, a.y - b.y, a.z - b.z)

Vertex(px, py, pz, u, v) ==
    [position |-> Vector3(px * Scale, py * Scale, pz * Scale),
     texture_coordinates |-> Vector2(u * Scale, v * Scale),
     normal |-> Vector3(0, 0, Scale)]

\* a quad of two triangles that share the vertices 0 and 2
QuadMesh ==
    [vertices |-> << Vertex(0, 0, 0, 0, 0), Vertex(1, 0, 0, 1, 0),
                     Vertex(1, 1, 0, 1, 1), Vertex(0, 1, 0, 0, 2) >>,
     indices |-> <<0, 1, 2, 0, 2, 3>>]

\* a fan of three triangles around vertex 0, and a vertex no triangle uses
FanMesh ==
    [vertices |-> << Vertex(0, 0, 0, 0, 0), Vertex(1, 0, 0, 1, 0),
                     Vertex(1, 1, 0, 1, 1), Vertex(0, 1, 0, 0, 2),
                     Vertex(-1, 1, 0, -1, 3), Vertex(5, 5, 5, 0, 0) >>,
     indices |-> <<0, 1, 2, 0, 2, 3, 0, 3, 4>>]

\* the quad with its first triangle listed twice
DoubledMesh ==
    [vertices |-> QuadMesh.vertices,
     indices |-> <<0, 1, 2, 0, 1, 2, 0, 2, 3>>]

\* the quad with the texture coordinates of vertex 3 on the line through
\* those of the vertices 0 and 2: its second triangle has no area in
\* texture space
DegenerateMesh ==
    [vertices |-> << Vertex(0, 0, 0, 0, 0), Vertex(1, 0, 0, 1, 0),
                     Vertex(1, 1, 0, 1, 1), Vertex(0, 1, 0, 2, 2) >>,
     indices |-> <<0, 1, 2, 0, 2, 3>>]

\* the quad with a third triangle whose texture coordinates all lie on the
\* line v = 0, the second of them to the left of the first
CollinearMesh ==
    [vertices |-> << Vertex(0, 0, 0, 0, 0), Vertex(1, 0, 0, 1, 0),
                     Vertex(1, 1, 0, 1, 1), Vertex(0, 1, 0, 0, 2),
                     Vertex(0, -1, 0, -1, 0) >>,
     indices |-> <<0, 1, 2, 0, 2, 3, 0, 4, 1>>]

\* the meshes the object file may hold
Meshes == {QuadMesh, FanMesh, DoubledMesh, DegenerateMesh, CollinearMesh}

\* the load as GraphicsState::new is about to start it
LoadStart(env, fault, object) ==
    [env |-> env, RESOURCE_DIRECTORY |-> <<>>, env_reads |-> 0,
     fault |-> fault, object |-> object,
     pc |-> "object", panicked_in |-> "none",
     reads |-> <<>>, read |-> "none",
     material |-> 0, materials |-> <<>>,
     vertices |-> <<>>, triangles_included |-> <<>>, chunk |-> 0,
     model |-> <<>>, event_loop |-> FALSE]

\* what fs::read finds at directory/file
file_state(l, directory, file) ==
    IF directory # "assets" THEN "missing"
    ELSE IF l.fault.file = file /\ l.fault.kind \in {"missing", "malformed"}
         THEN l.fault.kind
         ELSE "ok"

\* a panic, raised in the function `where`: the process aborts
panic(l, where) == [l EXCEPT !.pc = "panicked", !.panicked_in = where]

\* a resource_directory that reads the environment on every call
resource_directory_uncached(l) ==
    IF l.env = "unset"
    THEN [panic(l, "resource_directory") EXCEPT !.env_reads = @ + 1]
    ELSE [l EXCEPT !.RESOURCE_DIRECTORY = <<l.env>>, !.env_reads = @ + 1]

\* resource_directory: OnceLock::get_or_init of the static; the closure
\* reads the environment variable and unwraps it
resource_directory(l) ==
    IF l.RESOURCE_DIRECTORY # <<>> THEN l
    ELSE IF l.env = "unset"
         THEN [panic(l, "resource_directory") EXCEPT !.env_reads = @ + 1]
         ELSE [l EXCEPT !.RESOURCE_DIRECTORY = <<l.env>>, !.env_reads = @ + 1]

\* fs::read(resource_directory().join(file)): the read is logged and its
\* outcome left in `read`
fs_read(l, file) ==
    LET d == resource_directory(l)
    IN  IF d.pc = "panicked" THEN d
        ELSE [d EXCEPT
                !.reads = Append(@, [directory |-> d.RESOURCE_DIRECTORY[1],
                                     file |-> file]),
                !.read = file_state(d, d.RESOURCE_DIRECTORY[1], file)]

\* load_model up to load_obj_buf: an unreadable file is returned as Err and
\* unwrapped by GraphicsState::new, a parse error is unwrapped here
read_object(l) ==
    LET r == fs_read(l, ObjectFile)
    IN  IF r.pc = "panicked" THEN r
        ELSE IF r.read = "missing" THEN panic(r, "GraphicsState::new")
        ELSE IF r.read = "malformed" THEN panic(r, "load_model")
        ELSE [r EXCEPT !.pc = "material_library"]

\* the material loader handed to load_obj_buf, and the unwrap of its result
load_material_library(l) ==
    LET r == fs_read(l, MaterialLibrary)
    IN  IF r.pc = "panicked" THEN r
        ELSE IF r.read # "ok" THEN panic(r, "load_model")
        ELSE [r EXCEPT !.pc = "diffuse", !.material = 1]

\* a load_texture that goes on without the texture it could not read
load_texture_skipping(l, file) ==
    LET r == fs_read(l, file)
    IN  IF r.pc = "panicked" THEN r
        ELSE IF r.read = "malformed" THEN panic(r, "Texture::from_bytes")
        ELSE r

\* load_texture: an unreadable file is returned as Err, which load_model
\* returns and GraphicsState::new unwraps; Texture::from_bytes unwraps the
\* decoding of the image
load_texture(l, file) ==
    LET r == fs_read(l, file)
    IN  IF r.pc = "panicked" THEN r
        ELSE IF r.read = "missing" THEN panic(r, "GraphicsState::new")
        ELSE IF r.read = "malformed" THEN panic(r, "Texture::from_bytes")
        ELSE r

\* material.<texture>.unwrap() and load_texture of the file it names
load_referenced_texture(l, file) ==
    IF l.fault = [file |-> file, kind |-> "no_reference"]
    THEN panic(l, "load_model")
    ELSE load_texture(l, file)

\* the vertices as they are built from the mesh, tangent and bitangent zero
initial_vertices(object) ==
    [i \in 1..Len(object.vertices) |->
        [position |-> object.vertices[i].position,
         texture_coordinates |-> object.vertices[i].texture_coordinates,
         normal |-> object.vertices[i].normal,
         tangent |-> Vector3(0, 0, 0),
         bitangent |-> Vector3(0, 0, 0)]]

\* the closure over the materials: the diffuse texture of material l.material
load_diffuse(l) ==
    LET r == load_referenced_texture(l, Materials[l.material].diffuse_texture)
    IN  IF r.pc = "panicked" THEN r ELSE [r EXCEPT !.pc = "normal"]

\* its normal texture and Material::new; after the last material the
\* vertices of the mesh are built
load_normal(l) ==
    LET r == load_referenced_texture(l, Materials[l.material].normal_texture)
    IN  IF r.pc = "panicked" THEN r
        ELSE IF l.material < Len(Materials)
        THEN [r EXCEPT !.materials = Append(@, Materials[l.material].name),
                       !.material = @ + 1,
                       !.pc = "diffuse"]
        ELSE [r EXCEPT !.materials = Append(@, Materials[l.material].name),
                       !.pc = "tangents",
                       !.vertices = initial_vertices(l.object),
                       !.triangles_included =
                            [i \in 1..Len(l.object.vertices) |-> 0],
                       !.chunk = 1]

\* indices.chunks(3): chunk number k, from 1
chunk_at(indices, k) ==
    <<indices[3 * k - 2], indices[3 * k - 1], indices[3 * k]>>

chunk_count(indices) == Len(indices) \div 3

\* whether the f32 product a * b is -0.0; a zero factor is +0.0, being the
\* difference of two equal texture coordinates
negative_zero(a, b) == (a = 0 /\ b < 0) \/ (a < 0 /\ b = 0)

\* 1.0 / (delta_uv1.x * delta_uv2.y - delta_uv1.y * delta_uv2.x); the
\* difference is -0.0 only when it is -0.0 - +0.0
reciprocal_of_determinant(delta_uv1, delta_uv2) ==
    f32_recip(FMul(delta_uv1.x, delta_uv2.y) - FMul(delta_uv1.y, delta_uv2.x),
              /\ negative_zero(delta_uv1.x, delta_uv2.y)
              /\ delta_uv1.y = 0 \/ delta_uv2.x = 0
              /\ ~negative_zero(delta_uv1.y, delta_uv2.x))

\* a tangent pass that leaves out a triangle without area in texture space
face_tangents_guarded(vertices, c) ==
    LET v0 == vertices[c[1] + 1]
        v1 == vertices[c[2] + 1]
        v2 == vertices[c[3] + 1]
        delta_pos1 == VSub(v1.position, v0.position)
        delta_pos2 == VSub(v2.position, v0.position)
        delta_uv1 == Vector2(v1.texture_coordinates.x - v0.texture_coordinates.x,
                             v1.texture_coordinates.y - v0.texture_coordinates.y)
        delta_uv2 == Vector2(v2.texture_coordinates.x - v0.texture_coordinates.x,
                             v2.texture_coordinates.y - v0.texture_coordinates.y)
        r == reciprocal_of_determinant(delta_uv1, delta_uv2)
    IN  IF ~is_finite(r)
        THEN [tangent |-> Vector3(0, 0, 0), bitangent |-> Vector3(0, 0, 0)]
        ELSE [tangent |->
                Vector3_mul(VSub(VScale(delta_pos1, delta_uv2.y),
                                 VScale(delta_pos2, delta_uv1.y)), r),
              bitangent |->
                Vector3_mul(VSub(VScale(delta_pos2, delta_uv1.x),
                                 VScale(delta_pos1, delta_uv2.x)), f32_neg(r))]

\* the tangent and the bitangent of the triangle c
face_tangents(vertices, c) ==
    LET v0 == vertices[c[1] + 1]
        v1 == vertices[c[2] + 1]
        v2 == vertices[c[3] + 1]
        delta_pos1 == VSub(v1.position, v0.position)
        delta_pos2 == VSub(v2.position, v0.position)
        delta_uv1 == Vector2(v1.texture_coordinates.x - v0.texture_coordinates.x,
                             v1.texture_coordinates.y - v0.texture_coordinates.y)
        delta_uv2 == Vector2(v2.texture_coordinates.x - v0.texture_coordinates.x,
                             v2.texture_coordinates.y - v0.texture_coordinates.y)
        r == reciprocal_of_determinant(delta_uv1, delta_uv2)
    IN  [tangent |->
            Vector3_mul(VSub(VScale(delta_pos1, delta_uv2.y),
                             VScale(delta_pos2, delta_uv1.y)), r),
         bitangent |->
            Vector3_mul(VSub(VScale(delta_pos2, delta_uv1.x),
                             VScale(delta_pos1, delta_uv2.x)), f32_neg(r))]

\* an accumulation that keeps only the last triangle's tangents
add_tangents_overwriting(vertices, i, face) ==
    [vertices EXCEPT ![i + 1].tangent = face.tangent,
                     ![i + 1].bitangent = face.bitangent]

\* vertices[i].tangent = tangent + vertices[i].tangent, and the bitangent
add_tangents(vertices, i, face) ==
    [vertices EXCEPT ![i + 1].tangent = Vector3_add(face.tangent, @),
                     ![i + 1].bitangent = Vector3_add(face.bitangent, @)]

\* one iteration of the loop over the chunks
accumulate_chunk(l) ==
    LET c == chunk_at(l.object.indices, l.chunk)
        face == face_tangents(l.vertices, c)
        counted(t, i) == [t EXCEPT ![i + 1] = @ + 1]
    IN  [l EXCEPT
            !.vertices =
                add_tangents(add_tangents(add_tangents(@, c[1], face),
                                          c[2], face), c[3], face),
            !.triangles_included = counted(counted(counted(@, c[1]), c[2]), c[3]),
            !.chunk = @ + 1]

\* the loop that averages: each vertex times 1.0 / n as f32; for n = 0 the
\* factor is infinite
average_tangents(vertices, triangles_included) ==
    [i \in 1..Len(vertices) |->
        LET n == triangles_included[i]
            denom == f32_recip(n * Scale, FALSE)
        IN  [vertices[i] EXCEPT !.tangent = Vector3_mul(@, denom),
                                !.bitangent = Vector3_mul(@, denom)]]

\* the rest of the closure over the models and the return of load_model
finish_model(l) ==
    LET vertices == average_tangents(l.vertices, l.triangles_included)
        mesh == [name |-> ObjectFile,
                 vertex_buffer |-> vertices,
                 index_buffer |-> l.object.indices,
                 element_count |-> Len(l.object.indices),
                 material |-> 0]
    IN  [l EXCEPT !.vertices = vertices,
                  !.model = << [meshes |-> <<mesh>>, materials |-> l.materials] >>,
                  !.pc = "returned"]

----------------------------------------------------------------------------
(* load_model, one step at a time *)

Load(step) ==
    /\ loader' = step
    /\ UNCHANGED <<loop_vars, grid, clip, layout, renderer>>

\* the environment variable is set, changed or removed while the load runs
SetEnv ==
    /\ loader.pc \notin {"returned", "panicked"}
    /\ \E value \in EnvValues \ {loader.env} :
          Load([loader EXCEPT !.env = value])

ReadObject == loader.pc = "object" /\ Load(read_object(loader))

LoadMaterialLibrary ==
    loader.pc = "material_library" /\ Load(load_material_library(loader))

LoadDiffuse == loader.pc = "diffuse" /\ Load(load_diffuse(loader))

LoadNormal == loader.pc = "normal" /\ Load(load_normal(loader))

AccumulateChunk ==
    /\ loader.pc = "tangents"
    /\ loader.chunk <= chunk_count(loader.object.indices)
    /\ Load(accumulate_chunk(loader))

FinishModel ==
    /\ loader.pc = "tangents"
    /\ loader.chunk > chunk_count(loader.object.indices)
    /\ Load(finish_model(loader))

\* GraphicsState::new has returned: main goes on to run the event loop
RunEventLoop ==
    /\ loader.pc = "returned"
    /\ ~loader.event_loop
    /\ Load([loader EXCEPT !.event_loop = TRUE])

LoadInit ==
    /\ \E env \in EnvValues, fault \in Faults, object \in Meshes :
          loader = LoadStart(env, fault, object)
    /\ LoopInit
    /\ GridDone
    /\ ClipIdle
    /\ LayoutIdle
    /\ RenderIdle

LoadNext ==
    \/ SetEnv
    \/ ReadObject
    \/ LoadMaterialLibrary
    \/ LoadDiffuse
    \/ LoadNormal
    \/ AccumulateChunk
    \/ FinishModel
    \/ RunEventLoop

LoadSpec == LoadInit /\ [][LoadNext]_vars

----------------------------------------------------------------------------
(* LightUniform: the #[repr(C)] layout and bytemuck::bytes_of *)

\* std::mem::size_of and align_of of the field types: cgmath's Vector3<f32>
\* is three f32 in a row
Vector3_f32 == [size |-> 12, align |-> 4]

u32 == [size |-> 4, align |-> 4]

\* a LightUniform whose vectors are not followed by padding fields
LightUniform_fields_unpadded ==
    << [name |-> "position", type |-> Vector3_f32],
       [name |-> "color", type |-> Vector3_f32] >>

\* the fields of the struct in the order of their declaration
LightUniform_fields ==
    << [name |-> "position", type |-> Vector3_f32],
       [name |-> "_padding_1", type |-> u32],
       [name |-> "color", type |-> Vector3_f32],
       [name |-> "_padding_2", type |-> u32] >>

align_up(offset, align) == ((offset + align - 1) \div align) * align

\* #[repr(C)]: field k starts at the first multiple of its alignment at or
\* after the end of field k - 1
RECURSIVE offset_of(_, _)
offset_of(fields, k) ==
    IF k = 1 THEN 0
    ELSE align_up(offset_of(fields, k - 1) + fields[k - 1].type.size,
                  fields[k].type.align)

max_align(fields) ==
    CHOOSE a \in {fields[k].type.align : k \in 1..Len(fields)} :
        \A k \in 1..Len(fields) : fields[k].type.align <= a

\* the end of the last field, rounded up to the alignment of the struct
size_of(fields) ==
    align_up(offset_of(fields, Len(fields)) + fields[Len(fields)].type.size,
             max_align(fields))

\* the field that holds the byte at `offset`, or 0 for a byte between fields
field_at(fields, offset) ==
    IF \E k \in 1..Len(fields) :
           /\ offset_of(fields, k) <= offset
           /\ offset < offset_of(fields, k) + fields[k].type.size
    THEN CHOOSE k \in 1..Len(fields) :
           /\ offset_of(fields, k) <= offset
           /\ offset < offset_of(fields, k) + fields[k].type.size
    ELSE 0

\* the value of a field of the uniform as its 4-byte words
field_words(uniform, name) ==
    CASE name = "position" ->
            <<uniform.position.x, uniform.position.y, uniform.position.z>>
      [] name = "color" -> <<uniform.color.x, uniform.color.y, uniform.color.z>>
      [] OTHER -> <<0>>

\* bytemuck::bytes_of(&uniform), four bytes to a word: the word at offset
\* 4 * (w - 1) is the word of the field that lies there
bytes_of(uniform) ==
    [w \in 1..(size_of(LightUniform_fields) \div 4) |->
        LET k == field_at(LightUniform_fields, 4 * (w - 1))
        IN  IF k = 0 THEN 0
            ELSE field_words(uniform, LightUniform_fields[k].name)
                    [((4 * (w - 1) - offset_of(LightUniform_fields, k)) \div 4) + 1]]

LightPositions ==
    {Vector3(x, y, z) : x \in {-2 * Scale, 0, 2 * Scale},
                        y \in {-2 * Scale, 0, 2 * Scale},
                        z \in {-2 * Scale, 0, 2 * Scale}}

LightColors ==
    {Vector3(Scale, Scale, Scale), Vector3(Scale, 0, 0), Vector3(0, 0, 0),
     Vector3(Scale \div 2, Scale \div 5, Scale \div 10)}

\* LightUniform::prepared: the buffer is created with the bytes of the uniform
WriteUniform ==
    /\ layout.bytes = <<>>
    /\ layout' = [layout EXCEPT !.bytes = bytes_of(layout.uniform)]
    /\ UNCHANGED <<loop_vars, startup_vars, clip, renderer>>

LayoutInit ==
    /\ \E position \in LightPositions, color \in LightColors :
          layout = [uniform |-> LightUniform_new(position, color),
                    bytes |-> <<>>]
    /\ LoopInit
    /\ StartupDone
    /\ ClipIdle
    /\ RenderIdle

LayoutNext == WriteUniform

LayoutSpec == LayoutInit /\ [][LayoutNext]_vars

----------------------------------------------------------------------------
(* GraphicsState::render, command by command *)

camera_bind_group_layout == "camera_bind_group_layout"

light_bind_group_layout == "light_bundle.bind_group_layout"

texture_bind_group_layout == "texture_bind_group_layout"

\* the pipelines of GraphicsState::new: the bind group layouts of their
\* pipeline layout, by slot, and their vertex buffer layouts
standard_render_pipeline ==
    [name |-> "standard_render_pipeline",
     bind_group_layouts |-> <<texture_bind_group_layout,
                              camera_bind_group_layout,
                              light_bind_group_layout>>,
     buffers |-> <<"ModelVertex", "RawInstance">>]

light_render_pipeline ==
    [name |-> "light_render_pipeline",
     bind_group_layouts |-> <<camera_bind_group_layout,
                              light_bind_group_layout>>,
     buffers |-> <<"ModelVertex">>]

Pipelines == {standard_render_pipeline, light_render_pipeline}

\* the bind groups, each with the layout it was created with
camera_bind_group ==
    [name |-> "camera_bind_group", layout |-> camera_bind_group_layout]

light_bind_group ==
    [name |-> "light_bundle.bind_group", layout |-> light_bind_group_layout]

\* Material::new: the bind group of the material `name`
Material_bind_group(name) ==
    [name |-> name, layout |-> texture_bind_group_layout]

NoBindGroup == [name |-> "none", layout |-> "none"]

\* a render pass as begin_render_pass leaves it: no pipeline, nothing bound
NewPass ==
    [pipeline |-> "none",
     bind_groups |-> [slot \in 0..2 |-> [group |-> NoBindGroup, under |-> "none"]],
     vertex_buffers |-> [slot \in 0..1 |-> "none"],
     index_buffer |-> "none"]

CLEAR_COLOR == [r |-> 1000, g |-> 2000, b |-> 3000, a |-> Scale]

Range(start, end) == [start |-> start, end |-> end]

set_pipeline(r, pipeline) ==
    [r EXCEPT !.pass.pipeline = pipeline.name,
              !.commands = @ \o <<[op |-> "set_pipeline",
                                   pipeline |-> pipeline.name]>>]

\* set_bind_group: the group is bound at `slot`; `under` keeps the pipeline
\* that was set when it was bound
set_bind_group(r, slot, group) ==
    [r EXCEPT !.pass.bind_groups[slot] =
                  [group |-> group, under |-> r.pass.pipeline]]

set_vertex_buffer(r, slot, buffer) ==
    [r EXCEPT !.pass.vertex_buffers[slot] = buffer]

set_index_buffer(r, buffer) == [r EXCEPT !.pass.index_buffer = buffer]

\* draw_indexed records the draw with the state of the pass it uses
draw_indexed(r, indices, instances) ==
    [r EXCEPT !.commands = @ \o <<[op |-> "draw_indexed",
                                   indices |-> indices,
                                   instances |-> instances,
                                   drawn |-> r.pass]>>]

\* DrawLight::draw_light_mesh_instanced
draw_light_mesh_instanced(r, mesh, instances, camera, light) ==
    draw_indexed(
        set_bind_group(
            set_bind_group(
                set_index_buffer(
                    set_vertex_buffer(r, 0, mesh.vertex_buffer),
                    mesh.index_buffer),
                0, camera),
            1, light),
        Range(0, mesh.element_count), instances)

\* a draw_mesh_instanced that binds no material
draw_mesh_instanced_without_material(r, mesh, material, instances, camera, light) ==
    draw_indexed(
        set_bind_group(
            set_bind_group(
                set_index_buffer(
                    set_vertex_buffer(r, 0, mesh.vertex_buffer),
                    mesh.index_buffer),
                1, camera),
            2, light),
        Range(0, mesh.element_count), instances)

\* DrawModel::draw_mesh_instanced
draw_mesh_instanced(r, mesh, material, instances, camera, light) ==
    draw_indexed(
        set_bind_group(
            set_bind_group(
                set_bind_group(
                    set_index_buffer(
                        set_vertex_buffer(r, 0, mesh.vertex_buffer),
                        mesh.index_buffer),
                    0, Material_bind_group(material)),
                1, camera),
            2, light),
        Range(0, mesh.element_count), instances)

\* a text pass that clears its target
text_manager_render_clearing(r) ==
    [r EXCEPT !.commands = @ \o
        <<[op |-> "text.prepare"],
          [op |-> "begin_render_pass", view |-> r.view,
           color_load |-> [op |-> "Clear", value |-> CLEAR_COLOR],
           depth_view |-> "none", depth_load |-> [op |-> "none", value |-> 0]],
          [op |-> "text.render"],
          [op |-> "end_render_pass"]>>]

\* TextManager::render: prepare, then a pass on `view` that loads the
\* colour and has no depth attachment, in which the text is drawn
text_manager_render(r) ==
    [r EXCEPT !.commands = @ \o
        <<[op |-> "text.prepare"],
          [op |-> "begin_render_pass", view |-> r.view,
           color_load |-> [op |-> "Load", value |-> 0],
           depth_view |-> "none", depth_load |-> [op |-> "none", value |-> 0]],
          [op |-> "text.render"],
          [op |-> "end_render_pass"]>>]

RenderMesh(name, material, element_count) ==
    [vertex_buffer |-> <<name, "vertex_buffer">>,
     index_buffer |-> <<name, "index_buffer">>,
     material |-> material,
     element_count |-> element_count]

\* models as load_model returns them: meshes with the index of their
\* material (0 where the object names none) and the materials of the library
RenderModels ==
    {[meshes |-> <<RenderMesh("cube", 0, 36)>>,
      materials |-> <<"cube">>],
     [meshes |-> <<RenderMesh("body", 1, 36), RenderMesh("lid", 0, 6)>>,
      materials |-> <<"wood", "metal">>],
     [meshes |-> <<RenderMesh("a", 0, 3), RenderMesh("b", 1, 6),
                   RenderMesh("c", 1, 9)>>,
      materials |-> <<"stone", "grass">>],
     [meshes |-> <<>>, materials |-> <<>>],
     [meshes |-> <<RenderMesh("bare", 0, 36)>>, materials |-> <<>>]}

\* instances.len() for grids of 1, 2 and INSTANCES_PER_ROW rows
InstanceCounts == {n * n : n \in {1, 2, INSTANCES_PER_ROW}}

RenderStart(model, count) ==
    [pc |-> "get_current_texture",
     model |-> model,
     instances_len |-> count,
     result |-> "none",
     view |-> "none",
     pass |-> NewPass,
     mesh |-> 0,
     commands |-> <<>>]

\* self.surface.get_current_texture()?: an error returns at once
GetCurrentTexture ==
    /\ renderer.pc = "get_current_texture"
    /\ \E acquired \in SurfaceResults :
          renderer' =
              IF acquired = "Ok"
              THEN [renderer EXCEPT
                      !.pc = "begin_render_pass",
                      !.view = "frame.texture.view",
                      !.commands = @ \o <<[op |-> "get_current_texture"]>>]
              ELSE [renderer EXCEPT
                      !.pc = "returned",
                      !.result = acquired,
                      !.commands = @ \o <<[op |-> "get_current_texture"]>>]
    /\ UNCHANGED <<loop_vars, startup_vars, clip, layout>>

\* create_command_encoder, begin_render_pass, set_vertex_buffer(1, ...) and
\* set_pipeline(light_render_pipeline)
BeginRenderPass ==
    /\ renderer.pc = "begin_render_pass"
    /\ renderer' =
          [set_pipeline(
              set_vertex_buffer(
                  [renderer EXCEPT
                      !.pass = NewPass,
                      !.commands = @ \o
                          <<[op |-> "create_command_encoder"],
                            [op |-> "begin_render_pass",
                             view |-> renderer.view,
                             color_load |-> [op |-> "Clear", value |-> CLEAR_COLOR],
                             depth_view |-> "depth_texture.view",
                             depth_load |-> [op |-> "Clear", value |-> Scale]]>>],
                  1, "instance_buffer"),
              light_render_pipeline)
           EXCEPT !.pc = "draw_light_model", !.mesh = 1]
    /\ UNCHANGED <<loop_vars, startup_vars, clip, layout>>

\* draw_light_model = draw_light_model_instanced(model, 0..1, ...): one step
\* of its for_each
DrawLightMesh ==
    /\ renderer.pc = "draw_light_model"
    /\ renderer.mesh <= Len(renderer.model.meshes)
    /\ renderer' =
          [draw_light_mesh_instanced(renderer,
                                     renderer.model.meshes[renderer.mesh],
                                     Range(0, 1),
                                     camera_bind_group, light_bind_group)
           EXCEPT !.mesh = @ + 1]
    /\ UNCHANGED <<loop_vars, startup_vars, clip, layout>>

\* set_pipeline(standard_render_pipeline); set_bind_group(1, camera_bind_group)
SetStandardPipeline ==
    /\ renderer.pc = "draw_light_model"
    /\ renderer.mesh > Len(renderer.model.meshes)
    /\ renderer' =
          [set_bind_group(set_pipeline(renderer, standard_render_pipeline),
                          1, camera_bind_group)
           EXCEPT !.pc = "draw_model_instanced", !.mesh = 1]
    /\ UNCHANGED <<loop_vars, startup_vars, clip, layout>>

\* draw_model_instanced(model, 0..instances.len(), ...): one step of its
\* for_each; model.materials[mesh.material] panics when the index is out of
\* bounds
DrawMesh ==
    /\ renderer.pc = "draw_model_instanced"
    /\ renderer.mesh <= Len(renderer.model.meshes)
    /\ LET mesh == renderer.model.meshes[renderer.mesh]
       IN  renderer' =
              IF mesh.material < Len(renderer.model.materials)
              THEN [draw_mesh_instanced(
                        renderer, mesh,
                        renderer.model.materials[mesh.material + 1],
                        Range(0, renderer.instances_len),
                        camera_bind_group, light_bind_group)
                    EXCEPT !.mesh = @ + 1]
              ELSE [renderer EXCEPT !.pc = "panicked"]
    /\ UNCHANGED <<loop_vars, startup_vars, clip, layout>>

\* the main pass is dropped at the end of its block; text_manager.render
TextRender ==
    /\ renderer.pc = "draw_model_instanced"
    /\ renderer.mesh > Len(renderer.model.meshes)
    /\ renderer' =
          [text_manager_render(
              [renderer EXCEPT !.pass = NewPass,
                               !.commands = @ \o <<[op |-> "end_render_pass"]>>])
           EXCEPT !.pc = "queue.submit"]
    /\ UNCHANGED <<loop_vars, startup_vars, clip, layout>>

\* self.queue.submit(iter::once(encoder.finish()))
Submit ==
    /\ renderer.pc = "queue.submit"
    /\ renderer' = [renderer EXCEPT !.pc = "frame.present",
                                    !.commands = @ \o <<[op |-> "queue.submit"]>>]
    /\ UNCHANGED <<loop_vars, startup_vars, clip, layout>>

\* frame.present(); Ok(())
Present ==
    /\ renderer.pc = "frame.present"
    /\ renderer' = [renderer EXCEPT !.pc = "returned",
                                    !.result = "Ok",
                                    !.commands = @ \o <<[op |-> "frame.present"]>>]
    /\ UNCHANGED <<loop_vars, startup_vars, clip, layout>>

RenderInit ==
    /\ \E model \in RenderModels, count \in InstanceCounts :
          renderer = RenderStart(model, count)
    /\ LoopInit
    /\ StartupDone
    /\ ClipIdle
    /\ LayoutIdle

RenderNext ==
    \/ GetCurrentTexture
    \/ BeginRenderPass
    \/ DrawLightMesh
    \/ SetStandardPipeline
    \/ DrawMesh
    \/ TextRender
    \/ Submit
    \/ Present

RenderSpec == RenderInit /\ [][RenderNext]_vars

----------------------------------------------------------------------------
(* Vocabulary of the properties *)

\* the handler that produced the state `gs` made the call `c`
CalledIn(gs, c) == \E i \in 1..Len(gs.calls) : gs.calls[i] = c

Called(c) == CalledIn(graphics_state, c)

\* position of the first call `c` among the calls of the last handler
CallIndex(c) ==
    CHOOSE i \in 1..Len(graphics_state.calls) :
        /\ graphics_state.calls[i] = c
        /\ \A j \in 1..(i - 1) : graphics_state.calls[j] # c

UpdateCalls == {"camera_controller.update", "camera_uniform.update",
                "queue.write_buffer(camera_buffer)", "light_bundle.update",
                "queue.write_buffer(light_buffer)"}

SameDimensions(a, b) == a.width = b.width /\ a.height = b.height

InitialCamera == Camera_new(Vector3(0, 5 * Scale, 10 * Scale), -90, -20)

----------------------------------------------------------------------------
(* C1: after a Resized event with nonzero width and height is handled, the *)
(* projection's aspect ratio equals new_width / new_height, and every      *)
(* frame presented afterwards carries a view-projection built with the     *)
(* aspect of the surface it is drawn to.                                   *)
C1_ResizeSetsAspect ==
    /\ (Called("surface.configure") /\ ~Called("surface.get_current_texture"))
          => graphics_state.projection.aspect
                = FDiv(graphics_state.size.width, graphics_state.size.height)
    /\ \A i \in 1..Len(presented) :
          presented[i].camera.view_projection.projection.aspect
             = FDiv(presented[i].target.width, presented[i].target.height)

(* C2: in every reachable state the depth texture, the surface             *)
(* configuration and GraphicsState.size have the same width and height,    *)
(* and every presented frame used a depth buffer of the dimensions of the  *)
(* surface it was drawn to.                                                *)
C2_DepthMatchesSurface ==
    /\ SameDimensions(graphics_state.depth_texture, graphics_state.config)
    /\ SameDimensions(graphics_state.surface, graphics_state.config)
    /\ SameDimensions(graphics_state.config, graphics_state.size)
    /\ \A i \in 1..Len(presented) :
          SameDimensions(presented[i].depth, presented[i].target)

\* a frame presented after a resize to another size
C2_Witness ==
    /\ Len(presented) = 1
    /\ ~SameDimensions(presented[1].target, [width |-> 800, height |-> 600])
    /\ SameDimensions(presented[1].depth, graphics_state.size)

(* C3: the camera pitch always lies within                                 *)
(* [-SAFE_FRAC_PI_2, SAFE_FRAC_PI_2], whatever rotation input and dt the   *)
(* updates consumed.                                                       *)
C3_PitchWithinSafeRange ==
    /\ -SAFE_FRAC_PI_2 <= graphics_state.camera.pitch
    /\ graphics_state.camera.pitch <= SAFE_FRAC_PI_2

\* an update has applied a rotation of more than a full turn
C3_Witness ==
    /\ Called("camera_controller.update")
    /\ Abs(graphics_state.camera.yaw - InitialCamera.yaw) > 2 * PI
    /\ Abs(graphics_state.camera.pitch) = SAFE_FRAC_PI_2

(* C4: in the handling of a RedrawRequested event the controller update,   *)
(* the camera-uniform update and its buffer write and the light update all *)
(* come before render acquires the surface texture, none of them comes     *)
(* after it, and the presented frame used the camera and light buffers of  *)
(* the state the update left.                                              *)
C4_UpdateBeforeRender ==
    Called("surface.get_current_texture") =>
        /\ \A c \in UpdateCalls :
              /\ Called(c)
              /\ CallIndex(c) < CallIndex("surface.get_current_texture")
        /\ \A i \in 1..Len(graphics_state.calls) :
              i > CallIndex("surface.get_current_texture")
                 => graphics_state.calls[i] \notin UpdateCalls
        /\ Called("queue.submit") =>
              CallIndex("surface.get_current_texture") < CallIndex("queue.submit")
        /\ graphics_state.camera_buffer = graphics_state.camera_uniform
        /\ \A i \in 1..Len(presented) :
              /\ presented[i].camera
                    = CameraUniform_new(graphics_state.camera,
                                        graphics_state.projection)
              /\ presented[i].light = graphics_state.light_bundle.uniform

\* a frame presented after an update that moved the camera
C4_Witness ==
    /\ Len(presented) = 1
    /\ Called("queue.submit")
    /\ graphics_state.camera.position # InitialCamera.position

\* the last handler was a RedrawRequested whose render failed with Lost
AfterLost == Called("surface.get_current_texture") /\ Called("surface.configure")

\* the last handler was a RedrawRequested whose render failed with an error
\* other than Lost and OutOfMemory
AfterOtherError == Called("eprintln")

NothingSubmitted(gs, shown) ==
    /\ shown = <<>>
    /\ ~CalledIn(gs, "device.create_command_encoder")
    /\ ~CalledIn(gs, "queue.submit")
    /\ ~CalledIn(gs, "frame.present")

(* C5: when render fails with SurfaceError::Lost, the same handler         *)
(* reconfigures the surface with the stored size and recreates the depth   *)
(* texture, the event loop does not exit, and the next RedrawRequested     *)
(* event acquires the surface texture again.                               *)
C5_LostReconfiguresAndContinues ==
    [][ /\ (frames' = frames + 1 /\ RedrawWith("Lost")) =>
              /\ CalledIn(graphics_state', "surface.configure")
              /\ CalledIn(graphics_state', "create_depth_texture")
              /\ graphics_state'.size = graphics_state.size
              /\ SameDimensions(graphics_state'.surface, graphics_state.size)
              /\ SameDimensions(graphics_state'.depth_texture, graphics_state.size)
              /\ NothingSubmitted(graphics_state', presented')
              /\ ~exiting'
        /\ (AfterLost /\ RedrawRequested) =>
              CalledIn(graphics_state', "surface.get_current_texture")
      ]_vars

\* a Lost failure has been handled and the loop goes on
C5_Witness ==
    /\ AfterLost
    /\ ~exiting
    /\ frames < MaxFrames

(* C6: when render fails with SurfaceError::OutOfMemory, the handler       *)
(* requests exit and nothing is submitted or presented for that frame.     *)
C6_OutOfMemoryExits ==
    [][ (frames' = frames + 1 /\ RedrawWith("OutOfMemory")) =>
            /\ exiting'
            /\ NothingSubmitted(graphics_state', presented')
      ]_vars

\* the loop is exiting after an OutOfMemory failure
C6_Witness ==
    /\ exiting
    /\ exit_cause = "OutOfMemory"
    /\ Called("surface.get_current_texture")

(* C7: when render fails with any other SurfaceError, nothing is submitted *)
(* or presented, the surface configuration and the depth texture are left  *)
(* as they were and are not recreated, the event loop does not exit, and   *)
(* the next RedrawRequested event acquires the surface texture again.      *)
C7_OtherErrorSkipsFrame ==
    [][ /\ \A error \in SurfaceResults \ {"Ok", "Lost", "OutOfMemory"} :
              (frames' = frames + 1 /\ RedrawWith(error)) =>
                 /\ NothingSubmitted(graphics_state', presented')
                 /\ graphics_state'.config = graphics_state.config
                 /\ graphics_state'.surface = graphics_state.surface
                 /\ graphics_state'.depth_texture = graphics_state.depth_texture
                 /\ ~CalledIn(graphics_state', "surface.configure")
                 /\ ~CalledIn(graphics_state', "create_depth_texture")
                 /\ ~exiting'
        /\ (AfterOtherError /\ RedrawRequested) =>
              CalledIn(graphics_state', "surface.get_current_texture")
      ]_vars

\* a frame has been skipped and the loop goes on
C7_Witness ==
    /\ AfterOtherError
    /\ presented = <<>>
    /\ ~exiting
    /\ frames < MaxFrames

C9_ExitOnlyOnCloseOrEscape ==
    [][ (~exiting /\ exiting') =>
            (CloseRequested \/ Deliver(KeyEvent("Escape", "Pressed")))
      ]_vars

(* C9 as amended: the event loop requests exit only in response to a       *)
(* window close request, an Escape key press, a Suspended event, or a      *)
(* render that fails with SurfaceError::OutOfMemory.                       *)
C9_ExitCauses ==
    [][ (~exiting /\ exiting') =>
            \/ CloseRequested
            \/ Deliver(KeyEvent("Escape", "Pressed"))
            \/ Suspended
            \/ RedrawWith("OutOfMemory")
      ]_vars

\* the loop is exiting because the application was suspended
C9_Witness ==
    /\ exiting
    /\ exit_cause = "Suspended"

Amounts(cc) ==
    [KeyW |-> cc.amount_forward, KeyS |-> cc.amount_backward,
     KeyA |-> cc.amount_left, KeyD |-> cc.amount_right,
     Space |-> cc.amount_up, ShiftLeft |-> cc.amount_down]

NoDeltas(cc) ==
    cc.rotate_horizontal = 0 /\ cc.rotate_vertical = 0 /\ cc.scroll = 0

NetMovement(cc) ==
    <<cc.amount_forward - cc.amount_backward, cc.amount_right - cc.amount_left,
      cc.amount_up - cc.amount_down>>

\* update resets the per-frame deltas and leaves the movement amounts, which
\* change only on the matching key press or release
C10_ResetAndPersist ==
    /\ frames' = frames + 1 =>
          /\ NoDeltas(graphics_state'.camera_controller)
          /\ Amounts(graphics_state'.camera_controller)
                = Amounts(graphics_state.camera_controller)
    /\ \A key \in MovementKeys :
          Amounts(graphics_state'.camera_controller)[key]
             # Amounts(graphics_state.camera_controller)[key]
          => \E state \in ElementStates :
                /\ Deliver(KeyEvent(key, state))
                /\ Amounts(graphics_state'.camera_controller)[key]
                      = IF state = "Pressed" THEN 1 ELSE 0

\* an update that finds no rotation and no scroll pending leaves yaw and
\* pitch alone and moves the camera exactly when a key movement is held
C10_NoInputUpdate ==
    (frames' = frames + 1 /\ NoDeltas(graphics_state.camera_controller)) =>
        /\ graphics_state'.camera.yaw = graphics_state.camera.yaw
        /\ graphics_state'.camera.pitch = graphics_state.camera.pitch
        /\ NetMovement(graphics_state.camera_controller) = <<0, 0, 0>>
              => graphics_state'.camera.position = graphics_state.camera.position
        /\ (NetMovement(graphics_state.camera_controller) # <<0, 0, 0>>
            /\ elapsed > 0)
              => graphics_state'.camera.position # graphics_state.camera.position

(* C10: CameraController::update resets rotate_horizontal, rotate_vertical *)
(* and scroll to zero and leaves the six movement amounts, which change    *)
(* only on the matching key press (1) or release (0); an update with no    *)
(* input since the previous one applies no rotation and no scroll movement *)
(* but still applies key movement.                                         *)
C10_ConsumeAndReset == [][C10_ResetAndPersist /\ C10_NoInputUpdate]_vars

\* clamp(p, -SAFE_FRAC_PI_2, +SAFE_FRAC_PI_2)
ClampToSafeRange(p) ==
    IF p < -SAFE_FRAC_PI_2 THEN -SAFE_FRAC_PI_2
    ELSE IF p > SAFE_FRAC_PI_2 THEN SAFE_FRAC_PI_2
    ELSE p

\* the pitch an update is handed: old_pitch - rotate_vertical * sensitivity * dt
RotatedPitch(gs, duration) ==
    gs.camera.pitch - gs.camera_controller.rotate_vertical
                        * gs.camera_controller.sensitivity * as_secs_f32(duration)

(* C11: CameraController::update sets the pitch to                         *)
(* clamp(p, -SAFE_FRAC_PI_2, +SAFE_FRAC_PI_2) with                         *)
(* p = old_pitch - rotate_vertical * sensitivity * dt: p inside the safe   *)
(* range is kept exactly, p above the upper bound becomes the upper bound  *)
(* and p below the lower bound becomes the lower bound.                    *)
C11_PitchIsClamped ==
    [][ frames' = frames + 1 =>
            graphics_state'.camera.pitch
               = ClampToSafeRange(RotatedPitch(graphics_state, elapsed))
      ]_vars

----------------------------------------------------------------------------
(* The instance grid *)

\* the rotation that turns nothing
IdentityRotation == [s |-> Scale, v |-> Vector3(0, 0, 0)]

\* the grid cell of the instance at list index i (from 1), z the outer index
CellX(i) == (i - 1) % grid.n

CellZ(i) == (i - 1) \div grid.n

\* S * (c - N / 2)
CellOffset(c) == (SPACE_BETWEEN * (2 * c - grid.n) * Scale) \div 2

IdentityInstances ==
    {i \in 1..Len(grid.instances) : grid.instances[i].rotation = IdentityRotation}

(* C12: for every grid cell (x, z) the instance's rotation is the identity *)
(* if and only if its position is exactly (0,0,0), and otherwise is the    *)
(* 45-degree rotation about its normalized position (a unit axis); a cell  *)
(* lands on the origin only when N is even, at cell (N/2, N/2), so an even *)
(* N gives exactly one identity rotation (one of 100 for N = 10) and an    *)
(* odd N gives none.                                                       *)
C12_IdentityOnlyAtOrigin ==
    /\ \A i \in 1..Len(grid.instances) :
          LET instance == grid.instances[i]
              axis == normalize(instance.position)
          IN  /\ (instance.rotation = IdentityRotation)
                    <=> is_zero(instance.position)
              /\ ~is_zero(instance.position) =>
                    /\ instance.rotation.s = Cos(DegToRad(45) \div 2)
                    /\ instance.rotation.v = VScale(axis, Sin(DegToRad(45) \div 2))
                    /\ Abs(magnitude(axis) - Scale) <= 2
              /\ is_zero(instance.position) =>
                    /\ grid.n % 2 = 0
                    /\ CellX(i) = grid.n \div 2
                    /\ CellZ(i) = grid.n \div 2
    /\ grid.returned =>
          Cardinality(IdentityInstances) = IF grid.n % 2 = 0 THEN 1 ELSE 0

\* the grid of 10 x 10 is complete: one instance is not rotated, others are
C12_Witness ==
    /\ grid.returned
    /\ grid.n = INSTANCES_PER_ROW
    /\ Cardinality(IdentityInstances) = 1
    /\ Len(grid.instances) = 100

(* C13: initialize_instances produces exactly N*N instances in row-major   *)
(* order with z as the outer index: the instance at list index z*N + x has *)
(* position (S*(x - N/2), 0, S*(z - N/2)) with S = 3, so grid index (0,0)  *)
(* sits at (-S*N/2, 0, -S*N/2), all positions are distinct and every       *)
(* instance has y = 0; the instance buffer holds one raw instance each.    *)
C13_RowMajorGrid ==
    /\ \A i \in 1..Len(grid.instances) :
          /\ grid.instances[i].position
                = Vector3(CellOffset(CellX(i)), 0, CellOffset(CellZ(i)))
          /\ \A j \in 1..Len(grid.instances) :
                i # j => grid.instances[i].position # grid.instances[j].position
    /\ Len(grid.instances) >= 1 =>
          grid.instances[1].position
             = Vector3(-((SPACE_BETWEEN * grid.n * Scale) \div 2), 0,
                       -((SPACE_BETWEEN * grid.n * Scale) \div 2))
    /\ Len(grid.instances) <= grid.n * grid.n
    /\ grid.returned =>
          /\ Len(grid.instances) = grid.n * grid.n
          /\ Len(grid.instance_buffer) = grid.n * grid.n
          /\ grid.n = INSTANCES_PER_ROW =>
                /\ Len(grid.instances) = 100
                /\ grid.instances = initialize_instances(INSTANCES_PER_ROW).instances

\* the grid of 10 x 10 is complete and its last cell is (9, 9)
C13_Witness ==
    /\ grid.returned
    /\ grid.n = INSTANCES_PER_ROW
    /\ Len(grid.instance_buffer) = 100
    /\ grid.instances[100].position = Vector3(12 * Scale, 0, 12 * Scale)

(* C14: the instance grid is centered around the origin: for every         *)
(* instance at (x, 0, z) there is an instance at (-x, 0, -z).              *)
C14_GridCentered ==
    grid.returned =>
        \A i \in 1..Len(grid.instances) :
            \E j \in 1..Len(grid.instances) :
                grid.instances[j].position
                   = VScaleInt(grid.instances[i].position, -1)

----------------------------------------------------------------------------
(* C15: after startup no event changes the instance list or rewrites the   *)
(* instance buffer: what GraphicsState::new computed stays as it is in     *)
(* every handler, and every presented frame draws the instance range       *)
(* 0..N*N of that buffer.                                                  *)
C15_InstancesNeverChange ==
    [][ /\ graphics_state'.instances = graphics_state.instances
        /\ graphics_state'.instance_buffer = graphics_state.instance_buffer
        /\ Len(graphics_state'.instances)
              = INSTANCES_PER_ROW * INSTANCES_PER_ROW
        /\ Len(graphics_state'.instance_buffer) = Len(graphics_state'.instances)
        /\ \A i \in 1..Len(presented') :
              presented'[i].instances
                 = [start |-> 0, end |-> INSTANCES_PER_ROW * INSTANCES_PER_ROW]
      ]_vars

\* a second frame has been presented, after a resize and with the camera moved
C15_Witness ==
    /\ frames >= 2
    /\ Len(presented) = 1
    /\ graphics_state.size.width = 400
    /\ graphics_state.camera.position # InitialCamera.position
    /\ Len(graphics_state.instance_buffer) = 100

----------------------------------------------------------------------------
(* The light *)

LightStart == Vector3(2 * Scale, 2 * Scale, 2 * Scale)

\* LightStart turned by k degrees about the y axis
LightTurned(k) ==
    LET c == Cos(DegToRad(k))
        s == Sin(DegToRad(k))
    IN  Vector3(FMul(LightStart.x, c) + FMul(LightStart.z, s),
                LightStart.y,
                FMul(LightStart.z, c) - FMul(LightStart.x, s))

\* distance of a point from the y axis
AxisDistance(v) == ISqrt(v.x * v.x + v.z * v.z)

\* rounding of the fixed-point rotation: 0.0003 for each frame
LightTolerance(k) == 3 * k

LightAfterFrames(gs, k) ==
    LET light == gs.light_bundle.uniform
    IN  /\ gs.light_bundle.buffer = light
        /\ light.color = Vector3(Scale, Scale, Scale)
        /\ Abs(light.position.x - LightTurned(k).x) <= LightTolerance(k)
        /\ Abs(light.position.z - LightTurned(k).z) <= LightTolerance(k)
        /\ light.position.y = LightStart.y
        /\ Abs(AxisDistance(light.position) - AxisDistance(LightStart))
              <= LightTolerance(k)

(* C16: every RedrawRequested event turns the light's position by exactly  *)
(* 1 degree about the y axis, whatever the elapsed time is and whether or  *)
(* not the render succeeds, and writes the uniform to the light buffer in  *)
(* the same update; no other event moves the light; the rotation leaves    *)
(* the light's height, its distance from the y axis and its colour as they *)
(* were, so after k frames the light has turned k degrees from (2,2,2).    *)
C16_LightTurnsOneDegreePerFrame ==
    [][ /\ LightAfterFrames(graphics_state', frames')
        /\ frames' = frames =>
              graphics_state'.light_bundle = graphics_state.light_bundle
        /\ frames' # frames =>
              /\ frames' = frames + 1
              /\ graphics_state'.light_bundle.uniform.position
                    # graphics_state.light_bundle.uniform.position
      ]_vars

\* two frames have been handled, the second after a full second and with a
\* failed render, and the light has turned two degrees
C16_Witness ==
    /\ frames >= 2
    /\ ticks >= 1
    /\ Called("eprintln")
    /\ Abs(graphics_state.light_bundle.buffer.position.x - LightTurned(2).x) <= 6
    /\ graphics_state.light_bundle.buffer.position # LightStart

----------------------------------------------------------------------------
(* C17: the depth-range correction applied to the perspective projection   *)
(* maps a clip-space point (x, y, z, w) to (x, y, (z + w)/2, w): x, y and  *)
(* w are unchanged, normalized depth -1 becomes 0 and +1 becomes 1.        *)
C17_DepthRemappedToUnitRange ==
    clip.corrected # <<>> =>
        /\ clip.corrected[1] = clip.point[1]
        /\ clip.corrected[2] = clip.point[2]
        /\ clip.corrected[3] = (clip.point[3] + clip.point[4]) \div 2
        /\ clip.corrected[4] = clip.point[4]
        /\ clip.point[3] = -clip.point[4] => clip.corrected[3] = 0
        /\ clip.point[3] = clip.point[4] => clip.corrected[3] = clip.corrected[4]


----------------------------------------------------------------------------
(* Loading the assets *)

\* some read of the load found no readable file
AssetUnreadable ==
    \E i \in 1..Len(loader.reads) :
        file_state(loader, loader.reads[i].directory, loader.reads[i].file)
            = "missing"

\* the environment variable was read and was not set
VariableUnset == loader.env_reads > 0 /\ loader.RESOURCE_DIRECTORY = <<>>

StartupAborted ==
    /\ loader.pc = "panicked"
    /\ loader.model = <<>>
    /\ ~loader.event_loop

\* a model that holds every material of the library and the mesh
WholeModel(model) ==
    /\ Len(model.materials) = Len(Materials)
    /\ Len(model.meshes) = 1
    /\ model.meshes[1].element_count = Len(loader.object.indices)

\* C18: when the object file, the material library or a texture of a
\* material cannot be read, or the environment variable is not set, startup
\* aborts: load_model hands no model to GraphicsState::new and the event
\* loop is not run; a model that is handed over is whole, and it is handed
\* over before the event loop runs; no file is read a second time.
C18_UnreadableAssetAbortsStartup ==
    /\ (AssetUnreadable \/ VariableUnset) => StartupAborted
    /\ loader.model # <<>> =>
          /\ loader.pc = "returned"
          /\ WholeModel(loader.model[1])
    /\ loader.event_loop => loader.model # <<>>
    /\ \A i, j \in 1..Len(loader.reads) :
          i # j => loader.reads[i] # loader.reads[j]

\* the second material's texture is missing: the first material was loaded,
\* and startup is aborted without a model
C18_Witness ==
    /\ AssetUnreadable
    /\ loader.RESOURCE_DIRECTORY = <<"assets">>
    /\ Len(loader.materials) = 1
    /\ StartupAborted

\* C19: the environment variable is read at most once; every read of a file
\* is in the directory the first call returned, which is the directory the
\* static holds, whatever the environment variable has become since.
C19_ResourceDirectoryReadOnce ==
    /\ loader.env_reads <= 1
    /\ loader.reads # <<>> => loader.env_reads = 1
    /\ \A i \in 1..Len(loader.reads) :
          /\ loader.reads[i].directory = loader.reads[1].directory
          /\ loader.RESOURCE_DIRECTORY = <<loader.reads[i].directory>>

\* the object, the material library and the four textures were read in one
\* directory while the environment variable named another or none
C19_Witness ==
    /\ loader.pc = "returned"
    /\ Len(loader.reads) = 2 + 2 * Len(Materials)
    /\ loader.RESOURCE_DIRECTORY = <<"assets">>
    /\ loader.env # "assets"

\* how often the index list names vertex i
occurrences(indices, i) ==
    Cardinality({j \in 1..Len(indices) : indices[j] = i})

\* the vector v added up `times` times
RECURSIVE repeated(_, _)
repeated(v, times) ==
    IF times = 0 THEN Vector3(0, 0, 0)
    ELSE Vector3_add(v, repeated(v, times - 1))

\* the face tangents of the first k triangles, each counted once for every
\* time the triangle names vertex i, summed
RECURSIVE face_sum(_, _, _)
face_sum(object, i, k) ==
    IF k = 0 THEN [tangent |-> Vector3(0, 0, 0), bitangent |-> Vector3(0, 0, 0)]
    ELSE LET c == chunk_at(object.indices, k)
             face == face_tangents(initial_vertices(object), c)
             times == occurrences(c, i)
             before == face_sum(object, i, k - 1)
         IN  [tangent |-> Vector3_add(before.tangent,
                                      repeated(face.tangent, times)),
              bitangent |-> Vector3_add(before.bitangent,
                                        repeated(face.bitangent, times))]

\* a is total / k up to the rounding of the multiplication by 1.0 / k; an
\* infinite or NaN total divided by k is that infinity or NaN
IsQuotient(a, total, k) ==
    IF is_finite(total)
    THEN is_finite(a) /\ Abs(k * a - total) <= k * (2 + Abs(total) \div 5000)
    ELSE a = total

IsMean(v, total, k) ==
    /\ IsQuotient(v.x, total.x, k)
    /\ IsQuotient(v.y, total.y, k)
    /\ IsQuotient(v.z, total.z, k)

\* C20: in the model load_model returns, a vertex the index list names
\* k >= 1 times has for tangent the sum of the face tangents of the
\* triangles that name it, divided by k, and likewise for its bitangent.
C20_TangentIsMeanOfFaces ==
    loader.pc = "returned" =>
        \A i \in 1..Len(loader.vertices) :
            LET k == occurrences(loader.object.indices, i - 1)
                total == face_sum(loader.object, i - 1,
                                  chunk_count(loader.object.indices))
            IN  k >= 1 =>
                    /\ IsMean(loader.vertices[i].tangent, total.tangent, k)
                    /\ IsMean(loader.vertices[i].bitangent, total.bitangent, k)

\* the quad: the shared vertex 0 has the mean (1, 0.25, 0) of the two face
\* tangents, the vertices 1 and 3 have the tangent of their one triangle
C20_Witness ==
    /\ loader.pc = "returned"
    /\ loader.object = QuadMesh
    /\ IsMean(loader.vertices[1].tangent, Vector3(2 * Scale, Scale \div 2, 0), 2)
    /\ loader.vertices[2].tangent = Vector3(Scale, 0, 0)
    /\ loader.vertices[4].tangent = Vector3(Scale, Scale \div 2, 0)

\* the determinant of the texture-space edges of the triangle c of `object`
uv_determinant(object, c) ==
    LET uv0 == object.vertices[c[1] + 1].texture_coordinates
        uv1 == object.vertices[c[2] + 1].texture_coordinates
        uv2 == object.vertices[c[3] + 1].texture_coordinates
    IN  FMul(uv1.x - uv0.x, uv2.y - uv0.y) - FMul(uv1.y - uv0.y, uv2.x - uv0.x)

\* the chunks of the index list whose triangle has no area in texture space
DegenerateChunks(object) ==
    {k \in 1..chunk_count(object.indices) :
        uv_determinant(object, chunk_at(object.indices, k)) = 0}

NonFinite(v) == ~is_finite(v.x) /\ ~is_finite(v.y) /\ ~is_finite(v.z)

\* C21: a triangle whose texture-space determinant is zero is neither
\* detected nor skipped: load_model does not fail in the tangent pass, the
\* triangle is counted for each of its vertices like any other, and in the
\* model that is returned every component of the tangent and the bitangent
\* of each of its three vertices is infinite or NaN, also for a vertex that
\* a triangle with area shares.
C21_DegenerateTriangleSpoilsItsVertices ==
    /\ loader.pc = "panicked" => loader.vertices = <<>>
    /\ loader.pc = "returned" =>
          /\ \A i \in 1..Len(loader.vertices) :
                loader.triangles_included[i]
                    = occurrences(loader.object.indices, i - 1)
          /\ \A k \in DegenerateChunks(loader.object) :
                \A j \in 1..3 :
                    LET i == chunk_at(loader.object.indices, k)[j] + 1
                    IN  /\ NonFinite(loader.vertices[i].tangent)
                        /\ NonFinite(loader.vertices[i].bitangent)

\* the quad whose second triangle is degenerate was loaded: the model is
\* returned, and vertex 0, which the first triangle shares, has no finite
\* tangent, while vertex 1, of the first triangle only, has (1, 0, 0)
C21_Witness ==
    /\ loader.pc = "returned"
    /\ loader.model # <<>>
    /\ loader.object = DegenerateMesh
    /\ DegenerateChunks(loader.object) = {2}
    /\ NonFinite(loader.vertices[1].tangent)
    /\ loader.vertices[2].tangent = Vector3(Scale, 0, 0)

\* C29: when the averaging step divides, the count of every vertex is at
\* least 1, also that of a vertex no triangle of the index list names.
C29_DivisorNeverZero ==
    (loader.pc = "tangents"
     /\ loader.chunk > chunk_count(loader.object.indices)) =>
        \A i \in 1..Len(loader.vertices) : loader.triangles_included[i] >= 1

----------------------------------------------------------------------------
(* The layout of the light uniform *)

\* the position of the field `name` in the declaration of LightUniform
FieldIndex(name) ==
    CHOOSE k \in 1..Len(LightUniform_fields) : LightUniform_fields[k].name = name

\* C22: LightUniform is 32 bytes, its colour starts 16 bytes after its
\* position, and each of the two 12-byte vectors is followed by 4 bytes of
\* padding, whatever the position and the colour are: the bytes written to
\* the buffer are position, a zero word, colour, a zero word.
C22_LightUniformLayout ==
    /\ size_of(LightUniform_fields) = 32
    /\ offset_of(LightUniform_fields, FieldIndex("color"))
          - offset_of(LightUniform_fields, FieldIndex("position")) = 16
    /\ layout.bytes # <<>> =>
          LET u == layout.uniform
          IN  layout.bytes = <<u.position.x, u.position.y, u.position.z, 0,
                               u.color.x, u.color.y, u.color.z, 0>>

\* the bytes of a uniform whose position and colour differ in every component
C22_Witness ==
    /\ Len(layout.bytes) = 8
    /\ layout.uniform.position = Vector3(-2 * Scale, 0, 2 * Scale)
    /\ layout.uniform.color = Vector3(Scale \div 2, Scale \div 5, Scale \div 10)

----------------------------------------------------------------------------
(* Input routing and frame pacing *)

\* what the closure's match does with `event` in the current state, as
\* Deliver hands it over
Outcome(event) ==
    main_match([graphics_state EXCEPT !.calls = <<>>], event, elapsed,
               event.acquired)

\* the outcome of an arm that changes nothing and made the calls `calls`
Untouched(calls) == Ignored([graphics_state EXCEPT !.calls = calls])

ZeroSizes == {size \in ResizeInputs : size[1] = 0 \/ size[2] = 0}

\* C23: a Resized event whose width or height is zero changes nothing:
\* size, surface configuration, depth texture and text-buffer size stay as
\* the last resize with a nonzero size (or startup) left them, and the
\* surface is not configured again.
C23_ZeroResizeIsNoOp ==
    \A size \in ZeroSizes :
        LET out == Outcome(ResizedEvent(size))
        IN  /\ out = Untouched(<<"handle_input", "resize">>)
            /\ out.gs.size = graphics_state.size
            /\ out.gs.config = graphics_state.config
            /\ out.gs.surface = graphics_state.surface
            /\ out.gs.depth_texture = graphics_state.depth_texture
            /\ out.gs.text_manager = graphics_state.text_manager
            /\ ~CalledIn(out.gs, "surface.configure")

\* resize was called and returned at its test, after an earlier resize to
\* 400 x 400, which is still in effect
C23_Witness ==
    /\ Called("resize")
    /\ ~Called("surface.configure")
    /\ graphics_state.size = [width |-> 400, height |-> 400]
    /\ SameDimensions(graphics_state.depth_texture, graphics_state.size)
    /\ SameDimensions(graphics_state.surface, graphics_state.size)

LeftButtonEvent(state) ==
    [OwnEvent("MouseInput") EXCEPT !.button = "Left", !.state = state]

\* MouseInput events of another button, or of the left button in another
\* window
OtherButtonEvents ==
    {[LeftButtonEvent(state) EXCEPT !.button = "Right"] : state \in ElementStates}
    \cup {[LeftButtonEvent(state) EXCEPT !.window = "other"] : state \in ElementStates}

MotionEvent(delta) == [NoEvent EXCEPT !.event = "MouseMotion", !.motion = delta]

\* C24: mouse_pressed is false until a left-button MouseInput event for the
\* application's window arrives and is afterwards the state of the latest
\* such event: no other event, button or window changes it. A MouseMotion
\* event reaches the camera controller only while mouse_pressed is true;
\* one that arrives while it is false leaves controller and camera as they
\* were.
C24_MotionOnlyWhilePressed ==
    /\ ~graphics_state.mouse_pressed
    /\ [][ /\ \A state \in ElementStates :
                 Outcome(LeftButtonEvent(state)).gs.mouse_pressed
                    = (state = "Pressed")
           /\ \A event \in OtherButtonEvents :
                 Outcome(event).gs.mouse_pressed = graphics_state.mouse_pressed
           /\ graphics_state'.mouse_pressed # graphics_state.mouse_pressed =>
                 \E state \in ElementStates : Deliver(LeftButtonEvent(state))
           /\ \A delta \in MouseDeltas :
                 LET out == Outcome(MotionEvent(delta))
                 IN  IF graphics_state.mouse_pressed
                     THEN CalledIn(out.gs, "camera_controller.handle_mouse")
                     ELSE out = Untouched(<<>>)
           /\ (ticks' = ticks
               /\ CalledIn(graphics_state', "camera_controller.handle_mouse")) =>
                 (MouseMotion /\ graphics_state.mouse_pressed)
         ]_vars

\* a motion has reached the controller while the left button is down
C24_Witness ==
    /\ graphics_state.mouse_pressed
    /\ Called("camera_controller.handle_mouse")
    /\ graphics_state.camera_controller.rotate_horizontal # 0

\* the scroll amount a MouseWheel event with `delta` leaves pending
ScrollOf(delta) == -(IF delta.kind = "LineDelta" THEN delta.y * 100 ELSE delta.y)

\* C25: a mouse motion that reaches the controller replaces the pending
\* rotation with its own delta, and a scroll event replaces the pending
\* scroll, whatever was pending; the next update turns the yaw by the
\* pending horizontal rotation, that of the last motion alone.
C25_LastInputWins ==
    /\ \A delta \in MouseDeltas :
          graphics_state.mouse_pressed =>
              LET cc == Outcome(MotionEvent(delta)).gs.camera_controller
              IN  /\ cc.rotate_horizontal = delta[1]
                  /\ cc.rotate_vertical = delta[2]
    /\ \A delta \in ScrollDeltas :
          Outcome([OwnEvent("MouseWheel") EXCEPT !.delta = delta])
              .gs.camera_controller.scroll = ScrollOf(delta)
    /\ Outcome([OwnEvent("RedrawRequested") EXCEPT !.acquired = "Ok"])
          .gs.camera.yaw
          = graphics_state.camera.yaw
            + graphics_state.camera_controller.rotate_horizontal
              * graphics_state.camera_controller.sensitivity
              * as_secs_f32(elapsed)

\* an update has turned the yaw by the rotation of the motion (3, -3) over
\* one second
C25_Witness ==
    /\ Called("camera_controller.update")
    /\ graphics_state.camera.yaw = InitialCamera.yaw + 3 * Scale
    /\ NoDeltas(graphics_state.camera_controller)

\* C28: a redraw is requested only at the end of the handling of an event
\* at which frame_time or more has elapsed since previous_render_time, and
\* then it is requested by every event handled; previous_render_time moves
\* only when a RedrawRequested event is handled.
C28_FramePacing ==
    [][ /\ (~redraw_requested /\ redraw_requested') =>
              (ticks' = ticks /\ elapsed' >= frame_time)
        /\ (ticks' = ticks /\ elapsed' >= frame_time) => redraw_requested'
        /\ (frames' = frames + 1 /\ elapsed' < frame_time) => ~redraw_requested'
        /\ elapsed' < elapsed => frames' = frames + 1
        /\ frames' = frames + 1 => elapsed' = 0
      ]_vars

\* after a frame, one frame time has passed and an event has been handled:
\* a redraw is requested
C28_Witness ==
    /\ frames = 1
    /\ elapsed = frame_time
    /\ redraw_requested
    /\ Called("handle_input")

LifecycleEvents ==
    {OwnEvent("CloseRequested"), OwnEvent("RedrawRequested")}
    \cup {ResizedEvent(size) : size \in ResizeInputs}

ConsumedEvents ==
    {LeftButtonEvent(state) : state \in ElementStates}
    \cup {[OwnEvent("MouseWheel") EXCEPT !.delta = delta] : delta \in ScrollDeltas}

ForeignEvents ==
    {[NoEvent EXCEPT !.event = kind, !.window = "other",
                     !.key = "Escape", !.state = "Pressed", !.button = "Left",
                     !.delta = [kind |-> "LineDelta", y |-> 1],
                     !.size = [width |-> 400, height |-> 400],
                     !.acquired = "Ok"] : kind \in WindowEventKinds}

\* the handler neither exited, resized, updated nor rendered
NoLifecycleHandling(out) ==
    /\ out.exit = "none"
    /\ ~out.redrawn
    /\ out.presented = <<>>
    /\ out.gs.calls = <<"handle_input">>
    /\ out.gs.size = graphics_state.size
    /\ out.gs.config = graphics_state.config
    /\ out.gs.camera = graphics_state.camera

\* C30: handle_input returns false for CloseRequested, Resized and
\* RedrawRequested and leaves the state as it is, and these events go on to
\* exit, resize, and update and render; MouseWheel and left-button
\* MouseInput events are consumed: they cause no exit, resize, update or
\* render; a window event for another window does not reach handle_input
\* and changes nothing.
C30_EventRouting ==
    /\ \A event \in LifecycleEvents :
          handle_input(graphics_state, event)
             = [gs |-> graphics_state, consumed |-> FALSE]
    /\ Outcome(OwnEvent("CloseRequested")).exit = "CloseRequested"
    /\ \A size \in ResizeInputs :
          CalledIn(Outcome(ResizedEvent(size)).gs, "resize")
    /\ \A acquired \in SurfaceResults :
          LET out == Outcome([OwnEvent("RedrawRequested") EXCEPT
                                 !.acquired = acquired])
          IN  /\ out.redrawn
              /\ CalledIn(out.gs, "camera_controller.update")
              /\ CalledIn(out.gs, "surface.get_current_texture")
    /\ \A event \in ConsumedEvents : NoLifecycleHandling(Outcome(event))
    /\ \A event \in ForeignEvents : Outcome(event) = Untouched(<<>>)

\* a Resized event passed handle_input and reached resize, which configured
\* the surface
C30_Witness ==
    /\ graphics_state.calls # <<>>
    /\ graphics_state.calls[1] = "handle_input"
    /\ Called("resize")
    /\ Called("surface.configure")
    /\ graphics_state.size = [width |-> 400, height |-> 400]


----------------------------------------------------------------------------
(* The commands of a frame *)

\* the names of the commands made so far, in order
Ops == [i \in DOMAIN renderer.commands |-> renderer.commands[i].op]

Draws(m) == [k \in 1..m |-> "draw_indexed"]

\* the commands of a render of a model of m meshes that returns Ok
FrameOps(m) ==
    <<"get_current_texture", "create_command_encoder", "begin_render_pass",
      "set_pipeline">> \o Draws(m) \o <<"set_pipeline">> \o Draws(m) \o
    <<"end_render_pass", "text.prepare", "begin_render_pass", "text.render",
      "end_render_pass", "queue.submit", "frame.present">>

CountOf(op) == Cardinality({i \in DOMAIN Ops : Ops[i] = op})

\* C26: a render that returns Ok has made its commands in this order: the
\* main pass, which clears colour and depth; the light pipeline and one
\* draw of one instance for each mesh; the standard pipeline and one draw of
\* instances.len() instances for each mesh; the text pass on the same view,
\* which loads the colour; one submit; one present, after the submit. A
\* render whose get_current_texture fails has created no encoder, submitted
\* nothing and presented nothing.
C26_RenderCommandOrder ==
    /\ (renderer.pc = "returned" /\ renderer.result = "Ok") =>
          LET c == renderer.commands
              m == Len(renderer.model.meshes)
          IN  /\ Ops = FrameOps(m)
              /\ c[3].color_load = [op |-> "Clear", value |-> CLEAR_COLOR]
              /\ c[3].depth_load = [op |-> "Clear", value |-> Scale]
              /\ c[4].pipeline = light_render_pipeline.name
              /\ \A k \in 1..m :
                    /\ c[4 + k].drawn.pipeline = light_render_pipeline.name
                    /\ c[4 + k].drawn.vertex_buffers[0]
                          = renderer.model.meshes[k].vertex_buffer
                    /\ c[4 + k].instances = Range(0, 1)
              /\ c[5 + m].pipeline = standard_render_pipeline.name
              /\ \A k \in 1..m :
                    /\ c[5 + m + k].drawn.pipeline = standard_render_pipeline.name
                    /\ c[5 + m + k].drawn.vertex_buffers[0]
                          = renderer.model.meshes[k].vertex_buffer
                    /\ c[5 + m + k].drawn.vertex_buffers[1] = "instance_buffer"
                    /\ c[5 + m + k].instances = Range(0, renderer.instances_len)
              /\ c[8 + 2 * m].color_load.op = "Load"
              /\ c[8 + 2 * m].depth_view = "none"
              /\ c[8 + 2 * m].view = c[3].view
    /\ renderer.pc # "idle" =>
          /\ CountOf("create_command_encoder") <= 1
          /\ CountOf("queue.submit") <= 1
          /\ CountOf("frame.present") <= 1
          /\ renderer.result \notin {"none", "Ok"} =>
                (renderer.pc = "returned" /\ Ops = <<"get_current_texture">>)

\* a frame of a model of two meshes and 100 instances has been presented
C26_Witness ==
    /\ renderer.pc = "returned"
    /\ renderer.result = "Ok"
    /\ Len(renderer.model.meshes) = 2
    /\ renderer.instances_len = INSTANCES_PER_ROW * INSTANCES_PER_ROW
    /\ Ops[Len(Ops)] = "frame.present"

DrawCommands ==
    {i \in DOMAIN renderer.commands : renderer.commands[i].op = "draw_indexed"}

PipelineNamed(name) == CHOOSE p \in Pipelines : p.name = name

\* C27: at every draw_indexed the group bound at each slot of the active
\* pipeline's layout has the layout of that slot: camera and light for the
\* light pipeline; the material, camera and light for the standard
\* pipeline, all three bound since the standard pipeline was set, the
\* material being the one at index mesh.material of the model of the mesh
\* drawn.
C27_BindGroupsMatchPipeline ==
    renderer.pc # "idle" =>
        \A i \in DrawCommands :
            LET d == renderer.commands[i].drawn
            IN  /\ \E p \in Pipelines : p.name = d.pipeline
                /\ \A slot \in DOMAIN PipelineNamed(d.pipeline).bind_group_layouts :
                      d.bind_groups[slot - 1].group.layout
                         = PipelineNamed(d.pipeline).bind_group_layouts[slot]
                /\ d.pipeline = light_render_pipeline.name =>
                      /\ d.bind_groups[0].group = camera_bind_group
                      /\ d.bind_groups[1].group = light_bind_group
                /\ d.pipeline = standard_render_pipeline.name =>
                      /\ d.bind_groups[1].group = camera_bind_group
                      /\ d.bind_groups[2].group = light_bind_group
                      /\ \A slot \in 0..2 :
                            d.bind_groups[slot].under = standard_render_pipeline.name
                      /\ \E k \in DOMAIN renderer.model.meshes :
                            LET mesh == renderer.model.meshes[k]
                            IN  /\ d.vertex_buffers[0] = mesh.vertex_buffer
                                /\ d.index_buffer = mesh.index_buffer
                                /\ d.bind_groups[0].group =
                                      Material_bind_group(
                                          renderer.model.materials[mesh.material + 1])

\* after the light draws, a mesh whose material is not the first of its
\* model has been drawn with the standard pipeline
C27_Witness ==
    /\ renderer.pc = "draw_model_instanced"
    /\ \E i \in DrawCommands :
          /\ renderer.commands[i].drawn.pipeline = standard_render_pipeline.name
          /\ renderer.commands[i].drawn.bind_groups[0].group
                = Material_bind_group("metal")
    /\ \E i \in DrawCommands :
          renderer.commands[i].drawn.pipeline = light_render_pipeline.name

====
